---- MODULE Spec2Model ----
(***************************************************************************)
(* Chains execution engine of tool-chain-core (chains.ts): the builder     *)
(* objects created by chain(), the async task every chain() call starts,   *)
(* the execution history the builders share, and invoke().                 *)
(*                                                                         *)
(* One builder chain is modelled: the ChainsInitImpl root (builder 0) and  *)
(* the ChainsImpl builders 1..Len(steps) created from it.  Every chain()   *)
(* call starts the async function newAsyncTask of that call; task[n] is    *)
(* the state of the async function whose promise is builder n's asyncTask. *)
(* An async function runs without interruption between two awaits, so an   *)
(* action is the code between one await and the next.                      *)
(***************************************************************************)
EXTENDS Integers, Sequences, FiniteSets, TLC

\* ------------------------------------------------------------------ bounds
\* Length of a chain: the chain() calls from the root to its last builder.
MaxSteps == 2
\* Largest value of the retry option that is enumerated.
MaxRetry == 1

\* History positions r1..rMaxPos that are looked at (one more than can be
\* written, so that reads beyond the last step are covered).
MaxPos == MaxSteps + 2

\* ------------------------------------------------------------- JS values
\* Strings are sequences of text pieces; s.includes(t) is modelled as t
\* being a contiguous run of pieces of s.
Includes(s, t) ==
    \E i \in 0..(Len(s) - Len(t)) : SubSeq(s, i + 1, i + Len(t)) = t

\* Number.prototype.toString for the small numbers that occur.
NumStr(i) == <<"0", "1", "2", "3", "4", "5", "6", "7", "8", "9">>[i + 1]

\* Lower-casing of a text piece (for the i flag of a RegExp).
LowerPiece(p) == IF p = "Timeout" THEN "timeout" ELSE p
Lower(s) == [i \in 1..Len(s) |-> LowerPiece(s[i])]

\* The error classes of the runs and their prototype chains.
ErrorClasses == {"Error", "NetworkError", "TimeoutError"}
InstanceOf(cls, ctor) == cls = ctor \/ (ctor = "Error" /\ cls \in ErrorClasses)

\* The identity of an object or value: who created it (the caller as seed,
\* the step function, the timeout timer or normalizeError), for which step
\* and in which call of its step function.  NoId is the identity of undefined.
NoId == [by |-> "none", node |-> 0, seq |-> 0]
NewId(by, n, k) == [by |-> by, node |-> n, seq |-> k]

NoError == [cls |-> "none", msg |-> <<>>, id |-> NoId, timeout |-> 0, step |-> 0]
MkError(cls, msg, id) == [cls |-> cls, msg |-> msg, id |-> id, timeout |-> 0, step |-> 0]

\* new TimeoutError(timeout, step)
TimeoutError(timeout, step, id) ==
    [cls |-> "TimeoutError",
     msg |-> <<"Operation ", "timeout", " at step ", NumStr(step), ": exceeded ",
               NumStr(timeout), "ms">>,
     id |-> id, timeout |-> timeout, step |-> step]

\* A value held by a promise or a history entry: a value the engine does
\* not look into (data: its identity), or an object made by wrapResult with
\* the own keys `keys`.
Val(v) == [kind |-> "value", keys |-> {}, data |-> v, error |-> NoError]
Undefined == Val(NoId)
DataObj(v) == [kind |-> "object", keys |-> {"data"}, data |-> v, error |-> NoError]
ErrorObj(e) == [kind |-> "object", keys |-> {"error"}, data |-> NoId, error |-> e]
\* A history key that has never been assigned.
Absent == [kind |-> "absent", keys |-> {}, data |-> NoId, error |-> NoError]

\* What a step function throws or rejects with: an Error object, or some
\* other value (here a string).
ThrownError(e) == [isError |-> TRUE, err |-> e, str |-> <<>>]
ThrownValue(s) == [isError |-> FALSE, err |-> NoError, str |-> s]
NothingThrown == [isError |-> FALSE, err |-> NoError, str |-> <<>>]

\* --------------------------------------------------------------- helpers
\* The retryWhen option.
NoMatcher ==
    [kind |-> "absent", cls |-> "none", str |-> <<>>, ci |-> FALSE, g |-> FALSE,
     lastIndex |-> 0]
CtorMatcher(c) == [NoMatcher EXCEPT !.kind = "ctor", !.cls = c]
InstanceMatcher(c, m) == [NoMatcher EXCEPT !.kind = "instance", !.cls = c, !.str = m]
StringMatcher(s) == [NoMatcher EXCEPT !.kind = "string", !.str = s]
\* A RegExp object with pattern s and the flags i and g, as the caller makes
\* it: lastIndex is 0.
RegExpMatcher(s, ci, g) == [NoMatcher EXCEPT !.kind = "regexp", !.str = s, !.ci = ci, !.g = g]

\* RegExp.prototype.exec for the literal patterns that occur: the index (in
\* pieces) of the first match, -1 when there is none.  With the g flag the
\* search begins at lastIndex.
RegExpExec(m, s) ==
    LET text == IF m.ci THEN Lower(s) ELSE s
        pattern == IF m.ci THEN Lower(m.str) ELSE m.str
        from == IF m.g THEN m.lastIndex ELSE 0
        at == {i \in from..(Len(text) - Len(pattern)) :
                  SubSeq(text, i + 1, i + Len(pattern)) = pattern}
    IN  IF at = {} THEN -1 ELSE CHOOSE i \in at : \A j \in at : i <= j

\* RegExp.prototype.test: its result, and the RegExp object after the call
\* (with the g flag lastIndex is set behind the match, to 0 when there is
\* none).
RegExpTest(m, s) == RegExpExec(m, s) >= 0
RegExpAfterTest(m, s) ==
    IF ~m.g THEN m
    ELSE [m EXCEPT !.lastIndex = IF RegExpExec(m, s) < 0 THEN 0
                                 ELSE RegExpExec(m, s) + Len(m.str)]

shouldRetryWithoutStringBranch(error, retryWhen) ==
    IF retryWhen.kind = "absent" \/ (retryWhen.kind = "string" /\ retryWhen.str = <<>>)
    THEN TRUE
    ELSE IF retryWhen.kind = "ctor" THEN InstanceOf(error.cls, retryWhen.cls)
    ELSE IF retryWhen.kind = "instance" THEN InstanceOf(error.cls, retryWhen.cls)
    ELSE IF retryWhen.kind = "regexp" THEN RegExpTest(retryWhen, error.msg)
    ELSE FALSE

\* A string that is empty is falsy, like the absent option.
shouldRetry(error, retryWhen) ==
    IF retryWhen.kind = "absent" \/ (retryWhen.kind = "string" /\ retryWhen.str = <<>>)
    THEN TRUE
    ELSE IF retryWhen.kind = "ctor" THEN InstanceOf(error.cls, retryWhen.cls)
    ELSE IF retryWhen.kind = "instance" THEN InstanceOf(error.cls, retryWhen.cls)
    ELSE IF retryWhen.kind = "string"
         THEN IF retryWhen.str = <<"timeout">>
              THEN InstanceOf(error.cls, "TimeoutError")
              ELSE Includes(error.msg, retryWhen.str)
    ELSE IF retryWhen.kind = "regexp" THEN RegExpTest(retryWhen, error.msg)
    ELSE FALSE

normalizeErrorAlwaysWraps(thrown, id) ==
    MkError("Error", IF thrown.isError THEN thrown.err.msg ELSE thrown.str, id)

\* id is the identity of the Error created when the thrown value is not one.
normalizeError(thrown, id) ==
    IF thrown.isError THEN thrown.err ELSE MkError("Error", thrown.str, id)

\* An options argument: every key is optional, <<>> is a key that is not
\* given and <<x>> the key given as x.
parseChainOptions(options) ==
    [withoutThrow |-> IF options.withoutThrow = <<>> THEN FALSE ELSE options.withoutThrow[1],
     maxRetries |-> IF options.retry = <<>> THEN 0 ELSE options.retry[1],
     retryWhen |-> IF options.retryWhen = <<>> THEN NoMatcher ELSE options.retryWhen[1],
     retryDelay |-> IF options.retryDelay = <<>> THEN 0 ELSE options.retryDelay[1],
     hasTimeout |-> options.timeout # <<>>,
     timeout |-> IF options.timeout = <<>> THEN 0 ELSE options.timeout[1]]

\* The outcome of wrapResult: a return value or a thrown error.
Returned(v) == [thrown |-> FALSE, value |-> v, error |-> NoError]
Threw(e) == [thrown |-> TRUE, value |-> Undefined, error |-> e]

wrapResultBothKeys(result, error, withoutThrow) ==
    IF error.cls # "none"
    THEN IF withoutThrow
         THEN Returned([kind |-> "object", keys |-> {"data", "error"}, data |-> result,
                        error |-> error])
         ELSE Threw(error)
    ELSE IF withoutThrow THEN Returned(DataObj(result)) ELSE Returned(Val(result))

wrapResultThrowsCopy(result, error, withoutThrow) ==
    IF error.cls # "none"
    THEN IF withoutThrow
         THEN Returned(ErrorObj(error))
         ELSE Threw([error EXCEPT !.id = NewId("wrapResult", 0, 0)])
    ELSE IF withoutThrow THEN Returned(DataObj(result)) ELSE Returned(Val(result))

\* error = NoError stands for the undefined error argument.
wrapResult(result, error, withoutThrow) ==
    IF error.cls # "none"
    THEN IF withoutThrow THEN Returned(ErrorObj(error)) ELSE Threw(error)
    ELSE IF withoutThrow THEN Returned(DataObj(result)) ELSE Returned(Val(result))

\* ----------------------------------------------------------------- state
VARIABLES
    executionHistory,   \* the ExecutionHistory object shared by all builders
    resultIndex,        \* ChainsInitImpl.resultIndex
    steps,              \* steps[n]: builder n: its parent, its index, its options
    task,               \* task[n]: the async function behind builder n's asyncTask
    obs,                \* obs[n]: what has been observed of step n's function
    inv,                \* the invoke() call of the run and the builder it is made on
    background,         \* what the attempts that are over have left behind
    clock,              \* the time the attempts and retry delays have taken
    twice,              \* the first run of a chain definition that is run twice
    runner,             \* the Tasks runner: its list, its stop flag, its invoke()
    frames,             \* the executeTask calls of the run, in the order made
    retryCheck,         \* a retryWhen object and the latest shouldRetry call with it
    runners,            \* the Tasks objects made from one `new Tasks()` by addTask
    again,              \* the promise of a further invoke() call on the builder of inv
    initInvoke,         \* the promise of an invoke() call on the `new Chains(seed)` object
    rerun               \* the second invoke() call on a task runner

vars == <<executionHistory, resultIndex, steps, task, obs, inv, background, clock, twice,
          runner, frames, retryCheck, runners, again, initInvoke, rerun>>

Nodes == 1..Len(steps)

\* this.index of the builder whose chain() call started task n (0: the root,
\* which has resultIndex instead).
ThisIndex(n) == IF steps[n].parent = 0 THEN 0 ELSE steps[steps[n].parent].index

\* The 1-based history position of step n.
Position(n) == steps[n].index

Settled(n) == task[n].pc \in {"fulfilled", "rejected"}

NewTask == [pc |-> "awaiting", attempt |-> 0, lastError |-> NoError,
            previousResult |-> Undefined, timer |-> FALSE,
            value |-> Undefined, reason |-> NoError]

\* calls: the calls of the step function so far; thrown: what ended the
\* latest attempt when it failed; delays: the retryDelay waits so far.
NewObs == [calls |-> 0, thrown |-> NothingThrown, delays |-> 0]

\* abandoned: the steps with a call that a timeout abandoned and that is
\* still running; timers: the steps with a timeout timer still set for an
\* attempt that is over.  Neither is cancelled by the code.
NoBackground == [abandoned |-> {}, timers |-> {}]

NoInvoke == [on |-> 0, st |-> "none", value |-> Undefined, reason |-> NoError]

\* For each step, in ms: total: the time since its first attempt began, up
\* to the end of the step; elapsed: the time since its running attempt or
\* retry delay began; ran: how long its latest attempt that is over lasted.
NoTimes == [total |-> 0, elapsed |-> 0, ran |-> 0]
NoClock == [n \in 1..MaxSteps |-> NoTimes]

\* run: 1 in the first run of the definition, 2 in the second; def: the
\* options and the step function of every chain() call of the first run; on:
\* the builder invoke() was called on in the first run; outcome: how that
\* invoke() settled.
NoFirstRun == [run |-> 1, def |-> <<>>, on |-> 0, outcome |-> NoInvoke]

\* new Tasks() as an object of its own: tasks is its list (the step
\* functions by identity); parent: the runner whose addTask made it (0: the
\* caller).
NewRunner == [cls |-> "Tasks", tasks |-> <<>>, shouldStop |-> FALSE, parent |-> 0]

\* root: the frame of the second invoke()'s executeTask(0) call; st, reason:
\* the promise of the second invoke(); clean: no step function of the first
\* run was running when invoke() was called again; setBy: the run (1, 2) of
\* the step function that set the stop flag after the second invoke() had
\* cleared it, 0 when none has.
NoRerun == [root |-> 0, st |-> "none", reason |-> NoError, clean |-> TRUE, setBy |-> 0]

\* No retryWhen object has been made and shouldRetry has not been called.
\* retryWhen: the object as the calls have left it; error, result: the
\* argument and the result of the latest call; calls: the calls so far.
NoCheck ==
    [given |-> FALSE, retryWhen |-> NoMatcher, error |-> NoError, result |-> FALSE,
     calls |-> 0]

\* new Tasks(): tasks = [] (len: its length), shouldStop = false.  cls: the
\* class of the runner, of which only TasksWithTasks has invoke().  nexts: the
\* next() calls made in the run; finish: the number of step function calls
\* made when finish() was first called (0: never); st, reason: the promise of
\* invoke().
NewTasks ==
    [cls |-> "Tasks", len |-> 0, shouldStop |-> FALSE, nexts |-> 0, finish |-> 0,
     st |-> "none", reason |-> NoError]

\* The seeds: undefined (`new Chains()`) and a value.
Seed == NewId("seed", 0, 0)
InitialData == {NoId, Seed}

\* constructor(initialData)
Init ==
    \E initialData \in InitialData :
        /\ executionHistory =
             [j \in 1..MaxPos |-> IF j = 1 /\ initialData # NoId THEN Val(initialData) ELSE Absent]
        /\ resultIndex = IF initialData # NoId THEN 1 ELSE 0
        /\ steps = <<>>
        /\ task = <<>>
        /\ obs = <<>>
        /\ inv = NoInvoke
        /\ background = NoBackground
        /\ clock = NoClock
        /\ twice = NoFirstRun
        /\ runner = NewTasks
        /\ frames = <<>>
        /\ retryCheck = NoCheck
        /\ runners = <<NewRunner>>
        /\ again = NoInvoke
        /\ initInvoke = NoInvoke
        /\ rerun = NoRerun

\* The get trap of the results proxy handed to step n's function, for the
\* key r<j>.  A key that was never assigned reads as undefined.
ProxyGet(n, j) ==
    IF executionHistory[j].kind = "absent" THEN Undefined ELSE executionHistory[j]

\* ------------------------------------------------- the body of newAsyncTask
\* The promise of the async function settles with the outcome r of
\* wrapResult; the locals of the function are gone.
Settle(t, r) ==
    IF r.thrown
    THEN [NewTask EXCEPT !.pc = "rejected", !.reason = r.error]
    ELSE [NewTask EXCEPT !.pc = "fulfilled", !.value = r.value]

\* One pass of the while loop up to the await of the step function: the
\* function has been called and, with a timeout, the timer has been set.
BeginAttempt(t, n) ==
    [t EXCEPT !.pc = "racing", !.timer = steps[n].opts.hasTimeout]

CatchAlwaysWaits(t, n, error) ==
    LET o == steps[n].opts
        t1 == [t EXCEPT !.lastError = error, !.timer = FALSE]
    IN  IF t.attempt < o.maxRetries /\ shouldRetry(error, o.retryWhen)
        THEN [t1 EXCEPT !.attempt = @ + 1, !.pc = "delaying"]
        ELSE Settle(t1, wrapResult(NoId, error, o.withoutThrow))

CatchRetriesOnceLess(t, n, error) ==
    LET o == steps[n].opts
        t1 == [t EXCEPT !.lastError = error, !.timer = FALSE]
    IN  IF t.attempt + 1 < o.maxRetries /\ shouldRetry(error, o.retryWhen)
        THEN LET t2 == [t1 EXCEPT !.attempt = @ + 1]
             IN  IF o.retryDelay > 0
                 THEN [t2 EXCEPT !.pc = "delaying"]
                 ELSE BeginAttempt(t2, n)
        ELSE Settle(t1, wrapResult(NoId, error, o.withoutThrow))

CatchIgnoresRetryWhen(t, n, error) ==
    LET o == steps[n].opts
        t1 == [t EXCEPT !.lastError = error, !.timer = FALSE]
    IN  IF t.attempt < o.maxRetries
        THEN LET t2 == [t1 EXCEPT !.attempt = @ + 1]
             IN  IF o.retryDelay > 0
                 THEN [t2 EXCEPT !.pc = "delaying"]
                 ELSE BeginAttempt(t2, n)
        ELSE Settle(t1, wrapResult(NoId, error, o.withoutThrow))

\* The catch block, entered with the normalized value thrown by the awaited
\* race.  `continue` re-enters the loop, whose condition attempt <= maxRetries
\* holds after attempt < maxRetries.
Catch(t, n, error) ==
    LET o == steps[n].opts
        t1 == [t EXCEPT !.lastError = error, !.timer = FALSE]
    IN  IF t.attempt < o.maxRetries /\ shouldRetry(error, o.retryWhen)
        THEN LET t2 == [t1 EXCEPT !.attempt = @ + 1]
             IN  IF o.retryDelay > 0
                 THEN [t2 EXCEPT !.pc = "delaying"]
                 ELSE BeginAttempt(t2, n)
        ELSE Settle(t1, wrapResult(NoId, error, o.withoutThrow))

\* this.history[`r${this.index}`] = previousResult, done by every attempt of
\* a ChainsImpl task before it calls the step function.
HistoryWrite(n, previousResult) ==
    IF steps[n].parent = 0
    THEN executionHistory
    ELSE [executionHistory EXCEPT ![ThisIndex(n)] = previousResult]

ContinueRerunsEarlierSteps(n, t, o) ==
    /\ task' = [task EXCEPT ![n] = t]
    /\ IF t.pc = "racing"
       THEN /\ executionHistory' = HistoryWrite(n, t.previousResult)
            /\ obs' = [m \in 1..Len(obs) |->
                         IF m = n THEN [o EXCEPT !.calls = @ + 1]
                         ELSE IF m < n /\ t.attempt > 0
                         THEN [obs[m] EXCEPT !.calls = @ + 1]
                         ELSE obs[m]]
       ELSE /\ executionHistory' = executionHistory
            /\ obs' = [obs EXCEPT ![n] =
                         IF t.pc = "delaying" THEN [o EXCEPT !.delays = @ + 1] ELSE o]

\* The task of step n goes on as t; when t is at the race again, an attempt
\* has begun: the history write and the call of the step function.
Continue(n, t, o) ==
    /\ task' = [task EXCEPT ![n] = t]
    /\ IF t.pc = "racing"
       THEN /\ executionHistory' = HistoryWrite(n, t.previousResult)
            /\ obs' = [obs EXCEPT ![n] = [o EXCEPT !.calls = @ + 1]]
       ELSE /\ executionHistory' = executionHistory
            /\ obs' = [obs EXCEPT ![n] =
                         IF t.pc = "delaying" THEN [o EXCEPT !.delays = @ + 1] ELSE o]

\* ---------------------------------------------------------------- actions
ChainInitIgnoresSeed(options) ==
    /\ MaxSteps > 0
    /\ steps' = Append(steps, [parent |-> 0, index |-> 1,
                               opts |-> parseChainOptions(options)])
    /\ task' = Append(task, [NewTask EXCEPT !.pc = "racing",
                                            !.timer = options.timeout # <<>>])
    /\ obs' = Append(obs, [NewObs EXCEPT !.calls = 1])
    /\ UNCHANGED <<executionHistory, resultIndex, inv>>

\* ChainsInitImpl.chain(fn, options): the task runs at once up to its first
\* await, which is the await of the step function.
ChainInit(options) ==
    /\ MaxSteps > 0
    /\ steps' = Append(steps, [parent |-> 0, index |-> resultIndex + 1,
                               opts |-> parseChainOptions(options)])
    /\ task' = Append(task, [NewTask EXCEPT !.pc = "racing",
                                            !.timer = options.timeout # <<>>])
    /\ obs' = Append(obs, [NewObs EXCEPT !.calls = 1])
    /\ UNCHANGED <<executionHistory, resultIndex, inv>>

\* ChainsImpl.chain(fn, options) on builder p: the task stops at
\* `await this.asyncTask`.
Chain(p, options) ==
    /\ p \in Nodes
    /\ Position(p) - resultIndex < MaxSteps
    /\ steps' = Append(steps, [parent |-> p, index |-> steps[p].index + 1,
                               opts |-> parseChainOptions(options)])
    /\ task' = Append(task, NewTask)
    /\ obs' = Append(obs, NewObs)
    /\ UNCHANGED <<executionHistory, resultIndex, inv>>

ResumeCatchesParentError(n) ==
    /\ n \in Nodes
    /\ task[n].pc = "awaiting"
    /\ Settled(steps[n].parent)
    /\ LET p == steps[n].parent
       IN  IF task[p].pc = "rejected"
           THEN Continue(n, Catch(task[n], n, task[p].reason), obs[n])
           ELSE Continue(n, BeginAttempt([task[n] EXCEPT !.previousResult = task[p].value], n),
                         obs[n])
    /\ UNCHANGED <<resultIndex, steps, inv>>

ResumeWithoutAwait(n) ==
    /\ n \in Nodes
    /\ task[n].pc = "awaiting"
    /\ LET p == steps[n].parent
       IN  IF task[p].pc = "rejected"
           THEN Continue(n, Settle(task[n], Threw(task[p].reason)), obs[n])
           ELSE Continue(n, BeginAttempt([task[n] EXCEPT !.previousResult = task[p].value], n),
                         obs[n])
    /\ UNCHANGED <<resultIndex, steps, inv>>

ResumeStopsOnCapturedError(n) ==
    /\ n \in Nodes
    /\ task[n].pc = "awaiting"
    /\ Settled(steps[n].parent)
    /\ LET p == steps[n].parent
       IN  IF task[p].pc = "rejected"
           THEN Continue(n, Settle(task[n], Threw(task[p].reason)), obs[n])
           ELSE IF "error" \in task[p].value.keys
           THEN Continue(n, Settle(task[n], Threw(task[p].value.error)), obs[n])
           ELSE Continue(n, BeginAttempt([task[n] EXCEPT !.previousResult = task[p].value], n),
                         obs[n])
    /\ UNCHANGED <<resultIndex, steps, inv>>

\* `await this.asyncTask` returns or throws; when it returns, the loop is
\* entered and the first attempt begins.
Resume(n) ==
    /\ n \in Nodes
    /\ task[n].pc = "awaiting"
    /\ Settled(steps[n].parent)
    /\ LET p == steps[n].parent
       IN  IF task[p].pc = "rejected"
           THEN Continue(n, Settle(task[n], Threw(task[p].reason)), obs[n])
           ELSE Continue(n, BeginAttempt([task[n] EXCEPT !.previousResult = task[p].value], n),
                         obs[n])
    /\ UNCHANGED <<resultIndex, steps, inv>>

\* The value returned by the running call of step n's function.
Result(n) == NewId("fn", n, obs[n].calls)

FnReturnKeepsLastError(n) ==
    /\ n \in Nodes
    /\ task[n].pc = "racing"
    /\ Continue(n, Settle(task[n], wrapResult(Result(n), task[n].lastError,
                                              steps[n].opts.withoutThrow)),
                [obs[n] EXCEPT !.thrown = NothingThrown])
    /\ UNCHANGED <<resultIndex, steps, inv>>

\* The step function's promise is fulfilled before the timer fires.
FnReturn(n) ==
    /\ n \in Nodes
    /\ task[n].pc = "racing"
    /\ Continue(n, Settle(task[n], wrapResult(Result(n), NoError, steps[n].opts.withoutThrow)),
                [obs[n] EXCEPT !.thrown = NothingThrown])
    /\ UNCHANGED <<resultIndex, steps, inv>>

\* The step function throws or its promise is rejected before the timer
\* fires.
FnThrow(n, thrown) ==
    /\ n \in Nodes
    /\ task[n].pc = "racing"
    /\ Continue(n, Catch(task[n], n, normalizeError(thrown, NewId("normalizeError", n, obs[n].calls))),
                [obs[n] EXCEPT !.thrown = thrown])
    /\ UNCHANGED <<resultIndex, steps, inv>>

\* The step of the TimeoutError: currentIndex in ChainsImpl.chain,
\* currentResultIndex + 1 in ChainsInitImpl.chain.
TimeoutStep(n) == IF steps[n].parent = 0 THEN resultIndex + 1 ELSE ThisIndex(n)

TimerFireInFirstAttemptOnly(n) ==
    /\ n \in Nodes
    /\ task[n].pc = "racing"
    /\ task[n].timer
    /\ task[n].attempt = 0
    /\ LET error == TimeoutError(steps[n].opts.timeout, TimeoutStep(n),
                                 NewId("timer", n, obs[n].calls))
       IN  Continue(n, Catch(task[n], n, error),
                    [obs[n] EXCEPT !.thrown = ThrownError(error)])
    /\ UNCHANGED <<resultIndex, steps, inv>>

\* The timer of the running attempt fires first; the call is abandoned.
TimerFire(n) ==
    /\ n \in Nodes
    /\ task[n].pc = "racing"
    /\ task[n].timer
    /\ LET error == TimeoutError(steps[n].opts.timeout, TimeoutStep(n),
                                 NewId("timer", n, obs[n].calls))
       IN  Continue(n, Catch(task[n], n, error),
                    [obs[n] EXCEPT !.thrown = ThrownError(error)])
    /\ UNCHANGED <<resultIndex, steps, inv>>

\* The retryDelay timer fires.
DelayDone(n) ==
    /\ n \in Nodes
    /\ task[n].pc = "delaying"
    /\ Continue(n, BeginAttempt(task[n], n), obs[n])
    /\ UNCHANGED <<resultIndex, steps, inv>>

\* The attempt that the action of this step ends was racing a timer and the
\* step function won (it returned, or its promise was rejected): the timer
\* stays set.  A step function that throws before it returns a promise
\* (sync) ends the attempt before setTimeout is called.
LeavesTimer(n, sync) ==
    background' = IF task[n].timer /\ ~sync
                  THEN [background EXCEPT !.timers = @ \cup {n}]
                  ELSE background

\* The timer won: the call of the step function goes on running.
LeavesCall(n) ==
    background' = [background EXCEPT !.abandoned = @ \cup {n}]

StaleTimerFireRejects(n) ==
    /\ n \in background.timers
    /\ background' = [background EXCEPT !.timers = @ \ {n}]
    /\ task' = [task EXCEPT ![n] =
                  IF Settled(n)
                  THEN Settle(task[n], Threw(TimeoutError(steps[n].opts.timeout, Position(n),
                                                          NewId("timer", n, obs[n].calls))))
                  ELSE @]
    /\ UNCHANGED <<executionHistory, resultIndex, steps, obs, inv>>

\* The last timer still set for step n fires: it rejects a promise whose
\* race is over.
StaleTimerFire(n) ==
    /\ n \in background.timers
    /\ background' = [background EXCEPT !.timers = @ \ {n}]
    /\ UNCHANGED <<executionHistory, resultIndex, steps, task, obs, inv>>

AbandonedSettleResolvesStep(n) ==
    /\ n \in background.abandoned
    /\ background' = [background EXCEPT !.abandoned = @ \ {n}]
    /\ task' = [task EXCEPT ![n] =
                  IF Settled(n)
                  THEN Settle(task[n], wrapResult(Result(n), NoError,
                                                  steps[n].opts.withoutThrow))
                  ELSE @]
    /\ UNCHANGED <<executionHistory, resultIndex, steps, obs, inv>>

\* The last abandoned call of step n's function still running settles.
AbandonedSettle(n) ==
    /\ n \in background.abandoned
    /\ background' = [background EXCEPT !.abandoned = @ \ {n}]
    /\ UNCHANGED <<executionHistory, resultIndex, steps, task, obs, inv>>

\* ChainsImpl.invoke(), up to `await this.asyncTask`.
Invoke(n) ==
    /\ n \in Nodes
    /\ inv.st = "none"
    /\ inv' = [inv EXCEPT !.on = n, !.st = "pending"]
    /\ UNCHANGED <<executionHistory, resultIndex, steps, task, obs>>

InvokeSettleFirstStep(n) ==
    /\ inv.on = n
    /\ inv.st = "pending"
    /\ Settled(n)
    /\ inv' = IF task[1].pc = "rejected"
              THEN [inv EXCEPT !.st = "rejected", !.reason = task[1].reason]
              ELSE [inv EXCEPT !.st = "fulfilled", !.value = task[1].value]
    /\ UNCHANGED <<executionHistory, resultIndex, steps, task, obs>>

\* ChainsImpl.invoke(): `return await this.asyncTask`.
InvokeSettle(n) ==
    /\ n \in Nodes
    /\ inv.on = n
    /\ inv.st = "pending"
    /\ Settled(n)
    /\ inv' = IF task[n].pc = "rejected"
              THEN [inv EXCEPT !.st = "rejected", !.reason = task[n].reason]
              ELSE [inv EXCEPT !.st = "fulfilled", !.value = task[n].value]
    /\ UNCHANGED <<executionHistory, resultIndex, steps, task, obs>>
InvokeAgainRunsChainAgain(n) ==
    /\ n \in Nodes
    /\ inv.on = n
    /\ inv.st # "none"
    /\ again.st = "none"
    /\ again' = [again EXCEPT !.on = n, !.st = "pending"]
    /\ Continue(n, BeginAttempt(NewTask, n), obs[n])
    /\ UNCHANGED <<resultIndex, steps, inv, initInvoke, rerun>>

\* invoke() is called once more on the builder it was called on, during the
\* run of the chain or after it: `await this.asyncTask` again.
InvokeAgain(n) ==
    /\ n \in Nodes
    /\ inv.on = n
    /\ inv.st # "none"
    /\ again.st = "none"
    /\ again' = [again EXCEPT !.on = n, !.st = "pending"]
    /\ UNCHANGED <<executionHistory, resultIndex, steps, task, obs, inv, initInvoke, rerun>>

\* `return await this.asyncTask` of that call.
InvokeAgainSettle(n) ==
    /\ n \in Nodes
    /\ again.on = n
    /\ again.st = "pending"
    /\ Settled(n)
    /\ again' = IF task[n].pc = "rejected"
                THEN [again EXCEPT !.st = "rejected", !.reason = task[n].reason]
                ELSE [again EXCEPT !.st = "fulfilled", !.value = task[n].value]
    /\ UNCHANGED <<executionHistory, resultIndex, steps, task, obs, inv, initInvoke, rerun>>

\* ChainsInitImpl.invoke(): an async function, its promise is made.
InitInvoke ==
    /\ initInvoke.st = "none"
    /\ initInvoke' = [initInvoke EXCEPT !.st = "pending"]
    /\ UNCHANGED <<executionHistory, resultIndex, steps, task, obs, inv, again>>

InitInvokeReturnsSeed ==
    /\ initInvoke.st = "pending"
    /\ initInvoke' = [initInvoke EXCEPT
                         !.st = "fulfilled",
                         !.value = IF resultIndex = 1 THEN executionHistory[1] ELSE Undefined]
    /\ UNCHANGED <<executionHistory, resultIndex, steps, task, obs, inv, again>>

\* `return undefined` of ChainsInitImpl.invoke().
InitInvokeSettle ==
    /\ initInvoke.st = "pending"
    /\ initInvoke' = [initInvoke EXCEPT !.st = "fulfilled", !.value = Undefined]
    /\ UNCHANGED <<executionHistory, resultIndex, steps, task, obs, inv, again>>


\* ------------------------------------------------------------------ inputs
Timeouts == {5}
RetryDelays == {0, 3}
Optional(S) == {<<>>} \cup {<<x>> : x \in S}

NoOptions ==
    [withoutThrow |-> <<>>, retry |-> <<>>, retryWhen |-> <<>>, retryDelay |-> <<>>,
     timeout |-> <<>>]

\* Options with the error policy, the retry count and the timeout.
CoreOptions ==
    [withoutThrow : Optional(BOOLEAN), retry : Optional(0..MaxRetry),
     retryWhen : {<<>>}, retryDelay : {<<>>}, timeout : Optional(Timeouts)]

\* Options of a step with a timeout.
TimeoutOptions ==
    [withoutThrow : Optional(BOOLEAN), retry : Optional(0..MaxRetry),
     retryWhen : {<<>>}, retryDelay : {<<>>}, timeout : {<<t>> : t \in Timeouts}]

\* Options with a retry delay as well.
DelayOptions ==
    [withoutThrow : Optional(BOOLEAN), retry : Optional(0..MaxRetry),
     retryWhen : {<<>>}, retryDelay : Optional(RetryDelays), timeout : Optional(Timeouts)]

\* The retryWhen matchers of the runs.  The regular expressions of the chains
\* have no g flag: test() leaves them as they are.
Matchers ==
    {CtorMatcher("NetworkError"),
     InstanceMatcher("NetworkError", <<>>),
     StringMatcher(<<"Timeout">>),
     StringMatcher(<<"timeout">>),
     RegExpMatcher(<<"timeout">>, TRUE, FALSE)}

\* Options with a retryWhen matcher.
MatcherOptions ==
    [withoutThrow : Optional({TRUE}), retry : Optional(1..MaxRetry),
     retryWhen : Optional(Matchers), retryDelay : {<<>>}, timeout : Optional(Timeouts)]

\* What the step function of step n throws in the runs without matchers: a
\* new Error.
CoreThrown(n) ==
    {ThrownError(MkError("Error", <<"Test error">>, NewId("fn", n, obs[n].calls)))}

\* What it throws in the runs with matchers: a new Error or NetworkError
\* with one of three messages, or a string.
Messages ==
    {<<"Permanent error">>, <<"Timeout", " error">>, <<"Network ", "timeout", " occurred">>}
MatcherThrown(n) ==
    {ThrownError(MkError(c, m, NewId("fn", n, obs[n].calls))) :
        c \in {"Error", "NetworkError"}, m \in Messages}
    \cup {ThrownValue(<<"Timeout", " error">>)}

\* The actions that need no input and occur whatever the options are.
Run ==
    \/ \E n \in Nodes : Resume(n)
    \/ \E n \in Nodes : FnReturn(n)
    \/ \E n \in Nodes : TimerFire(n)

\* A single chain: chain() is called on the newest builder only.  No step
\* has a retry delay, so no task is ever waiting for one.  What the attempts
\* leave behind is not followed: nothing in the chain reads it.
Next ==
    /\ \/ \E options \in CoreOptions : Len(steps) = 0 /\ ChainInit(options)
       \/ \E options \in CoreOptions : Chain(Len(steps), options)
       \/ \E n \in Nodes : \E thrown \in CoreThrown(n) : FnThrow(n, thrown)
       \/ Run
       \/ \E n \in Nodes : Invoke(n)
       \/ \E n \in Nodes : InvokeSettle(n)
    /\ UNCHANGED <<background, clock, twice, runner, frames, retryCheck, runners, again, initInvoke, rerun>>

Spec == Init /\ [][Next]_vars

\* A single chain whose steps all have a timeout, with the abandoned calls
\* and the timers left set; invoke() is left out.
NextBackground ==
    /\ \/ /\ \/ \E options \in TimeoutOptions : Len(steps) = 0 /\ ChainInit(options)
             \/ \E options \in TimeoutOptions : Chain(Len(steps), options)
             \/ \E n \in Nodes : Resume(n)
          /\ UNCHANGED background
       \/ \E n \in Nodes : FnReturn(n) /\ LeavesTimer(n, FALSE)
       \/ \E n \in Nodes, sync \in BOOLEAN : \E thrown \in CoreThrown(n) :
             FnThrow(n, thrown) /\ LeavesTimer(n, sync)
       \/ \E n \in Nodes : TimerFire(n) /\ LeavesCall(n)
       \/ \E n \in Nodes : StaleTimerFire(n)
       \/ \E n \in Nodes : AbandonedSettle(n)
    /\ UNCHANGED <<clock, twice, runner, frames, retryCheck, runners, again, initInvoke, rerun>>

SpecBackground == Init /\ [][NextBackground]_vars

\* A single chain in which one step may have a retry delay, whatever the
\* other options of the steps are; invoke() is left out.
NextDelay ==
    /\ \/ \E options \in DelayOptions : Len(steps) = 0 /\ ChainInit(options)
       \/ \E options \in DelayOptions :
             /\ options.retryDelay = <<>> \/ \A m \in Nodes : steps[m].opts.retryDelay = 0
             /\ Chain(Len(steps), options)
       \/ \E n \in Nodes : \E thrown \in CoreThrown(n) : FnThrow(n, thrown)
       \/ Run
       \/ \E n \in Nodes : DelayDone(n)
    /\ UNCHANGED <<background, clock, twice, runner, frames, retryCheck, runners, again, initInvoke, rerun>>

SpecDelay == Init /\ [][NextDelay]_vars

\* Options with a retry count only.
RetryOptions ==
    [withoutThrow : {<<>>}, retry : Optional(0..MaxRetry),
     retryWhen : {<<>>}, retryDelay : {<<>>}, timeout : {<<>>}]

\* A single chain whose steps have retry counts and no other option, and
\* its invoke().
NextRetry ==
    /\ \/ \E options \in RetryOptions : Len(steps) = 0 /\ ChainInit(options)
       \/ \E options \in RetryOptions : Chain(Len(steps), options)
       \/ \E n \in Nodes : \E thrown \in CoreThrown(n) : FnThrow(n, thrown)
       \/ \E n \in Nodes : Resume(n)
       \/ \E n \in Nodes : FnReturn(n)
       \/ \E n \in Nodes : Invoke(n)
       \/ \E n \in Nodes : InvokeSettle(n)
    /\ UNCHANGED <<background, clock, twice, runner, frames, retryCheck, runners, again, initInvoke, rerun>>

SpecRetry == Init /\ [][NextRetry]_vars

\* Builders made from one root when chain() is called on any of them.
MaxBuilders == MaxSteps + 2

\* Options of the steps of branching chains.
BranchOptions ==
    [withoutThrow : Optional({TRUE}), retry : {<<>>},
     retryWhen : {<<>>}, retryDelay : {<<>>}, timeout : {<<>>}]

\* ------------------------------------------------------ the same chain twice
\* Deterministic step functions: one that returns, one that throws, and one
\* whose promise never settles.
Fns == {"returns", "throws", "hangs"}

\* The step function of step n.
FnOf(n) == twice.def[n].fn

\* chain(fn, options) of the next step.  The first run makes the definition;
\* the second run makes the same calls again.
Defines(options, fn) ==
    LET k == Len(steps) + 1
    IN  IF twice.run = 1
        THEN twice' = [twice EXCEPT !.def = Append(@, [opts |-> parseChainOptions(options),
                                                       fn |-> fn])]
        ELSE /\ k <= Len(twice.def)
             /\ twice.def[k] = [opts |-> parseChainOptions(options), fn |-> fn]
             /\ UNCHANGED twice

RestartWithoutSeed ==
    /\ twice.run = 1
    /\ inv.st \in {"fulfilled", "rejected"}
    /\ twice' = [twice EXCEPT !.run = 2, !.on = inv.on, !.outcome = inv]
    /\ executionHistory' = [j \in 1..MaxPos |-> Absent]
    /\ resultIndex' = 0
    /\ steps' = <<>>
    /\ task' = <<>>
    /\ obs' = <<>>
    /\ inv' = NoInvoke

\* The first run is over: `new Chains(seed)` with the seed of the first run.
Restart ==
    /\ twice.run = 1
    /\ inv.st \in {"fulfilled", "rejected"}
    /\ twice' = [twice EXCEPT !.run = 2, !.on = inv.on, !.outcome = inv]
    /\ executionHistory' =
         [j \in 1..MaxPos |-> IF j = 1 /\ resultIndex = 1 THEN Val(Seed) ELSE Absent]
    /\ steps' = <<>>
    /\ task' = <<>>
    /\ obs' = <<>>
    /\ inv' = NoInvoke
    /\ UNCHANGED resultIndex

\* -------------------------------------------------------------------- time
\* The time for which a step is followed.
MaxTime == 9

DueSinceFirstAttempt(n) == clock[n].total = steps[n].opts.timeout

\* setTimeout(() => reject(new TimeoutError(..)), timeout) is called when the
\* attempt begins: its timer is due timeout ms later.
TimerDue(n) == clock[n].elapsed = steps[n].opts.timeout

\* setTimeout(resolve, retryDelay) is called when the attempt has failed.
DelayDue(n) == clock[n].elapsed = steps[n].opts.retryDelay

\* The steps in an attempt or a retry delay whose options set a timer.
Waiting ==
    {n \in Nodes : /\ task[n].pc \in {"racing", "delaying"}
                   /\ steps[n].opts.hasTimeout \/ steps[n].opts.retryDelay > 0}

\* A millisecond passes for the steps that are waiting.  A timer fires when
\* it is due, so time does not pass a timer that a task is waiting for.
Tick ==
    /\ Waiting # {}
    /\ \A n \in Waiting :
          /\ clock[n].total < MaxTime
          /\ (task[n].pc = "racing" /\ task[n].timer) => ~TimerDue(n)
          /\ task[n].pc = "delaying" => ~DelayDue(n)
    /\ clock' = [n \in 1..MaxSteps |->
                    IF n \in Waiting
                    THEN [clock[n] EXCEPT !.total = @ + 1, !.elapsed = @ + 1]
                    ELSE clock[n]]
    /\ UNCHANGED <<executionHistory, resultIndex, steps, task, obs, inv>>

\* What the clock records of an action of step n's task: the end of an
\* attempt, the beginning of an attempt or of a retry delay.
Timed(n) ==
    LET moved == task'[n].pc # task[n].pc \/ task'[n].attempt # task[n].attempt
        ended == task[n].pc = "racing" /\ moved
        began == task'[n].pc \in {"racing", "delaying"} /\ moved
    IN  clock' = [clock EXCEPT ![n] =
                    [total   |-> @.total,
                     elapsed |-> IF moved THEN 0 ELSE @.elapsed,
                     ran     |-> IF ended THEN @.elapsed ELSE @.ran]]

\* Options with a timeout and a retry delay.
ClockOptions ==
    [withoutThrow : Optional(BOOLEAN), retry : Optional(0..MaxRetry),
     retryWhen : {<<>>}, retryDelay : Optional(RetryDelays), timeout : Optional(Timeouts)]

\* At most one step of the chain has options.
OneWithOptions(options) ==
    options = NoOptions \/ \A m \in Nodes : steps[m].opts = parseChainOptions(NoOptions)

\* A single chain in which at most one step has options, among them a
\* timeout, with the abandoned calls and the timers left set, and its
\* invoke().
NextAbandoned ==
    /\ \/ /\ \/ \E options \in TimeoutOptions \cup {NoOptions} :
                   Len(steps) = 0 /\ ChainInit(options)
             \/ \E options \in TimeoutOptions \cup {NoOptions} :
                   OneWithOptions(options) /\ Chain(Len(steps), options)
             \/ \E n \in Nodes : Resume(n)
             \/ \E n \in Nodes : Invoke(n)
             \/ \E n \in Nodes : InvokeSettle(n)
          /\ UNCHANGED background
       \/ \E n \in Nodes : FnReturn(n) /\ LeavesTimer(n, FALSE)
       \/ \E n \in Nodes, sync \in BOOLEAN : \E thrown \in CoreThrown(n) :
             FnThrow(n, thrown) /\ LeavesTimer(n, sync)
       \/ \E n \in Nodes : TimerFire(n) /\ LeavesCall(n)
       \/ \E n \in Nodes : StaleTimerFire(n)
       \/ \E n \in Nodes : AbandonedSettle(n)
    /\ UNCHANGED <<clock, twice, runner, frames, retryCheck, runners, again, initInvoke, rerun>>

SpecAbandoned == Init /\ [][NextAbandoned]_vars

\* A single chain in which at most one step has options, with the invoke()
\* calls made on it: on the `new Chains(seed)` object, and up to two on one
\* of the builders chain() returned.
NextInvoke ==
    /\ \/ /\ \/ \E options \in CoreOptions : Len(steps) = 0 /\ ChainInit(options)
             \/ \E options \in CoreOptions :
                   /\ OneWithOptions(options)
                   /\ Chain(Len(steps), options)
             \/ \E n \in Nodes : \E thrown \in CoreThrown(n) : FnThrow(n, thrown)
             \/ \E n \in Nodes : Resume(n)
             \/ \E n \in Nodes : FnReturn(n)
             \/ \E n \in Nodes : TimerFire(n)
             \/ \E n \in Nodes : Invoke(n)
             \/ \E n \in Nodes : InvokeSettle(n)
          /\ UNCHANGED <<again, initInvoke, rerun>>
       \/ \E n \in Nodes : InvokeAgain(n)
       \/ \E n \in Nodes : InvokeAgainSettle(n)
       \/ InitInvoke
       \/ InitInvokeSettle
    /\ UNCHANGED <<background, clock, twice, runner, frames, retryCheck, runners, rerun>>

SpecInvoke == Init /\ [][NextInvoke]_vars

\* A single chain in which at most one step has options, among them a
\* timeout, retries and a retry delay, and its invoke().  A step function
\* may return, throw, or do neither.
NextSettling ==
    /\ \/ \E options \in ClockOptions \cup {NoOptions} : Len(steps) = 0 /\ ChainInit(options)
       \/ \E options \in ClockOptions \cup {NoOptions} :
             OneWithOptions(options) /\ Chain(Len(steps), options)
       \/ \E n \in Nodes : \E thrown \in CoreThrown(n) : FnThrow(n, thrown)
       \/ Run
       \/ \E n \in Nodes : DelayDone(n)
       \/ \E n \in Nodes : Invoke(n)
       \/ \E n \in Nodes : InvokeSettle(n)
    /\ UNCHANGED <<background, clock, twice, runner, frames, retryCheck, runners, again, initInvoke, rerun>>

SpecSettling == Init /\ [][NextSettling]_vars

\* What is bound to happen to the task of step n: the continuation of a
\* settled await runs, a timer that is set fires, and the step function of a
\* step without timeout returns or throws.  The step function of a step with
\* a timeout need not do either.
TaskGoesOn(n) ==
    /\ \/ Resume(n)
       \/ TimerFire(n)
       \/ DelayDone(n)
       \/ /\ n \in Nodes
          /\ ~steps[n].opts.hasTimeout
          /\ FnReturn(n) \/ \E thrown \in CoreThrown(n) : FnThrow(n, thrown)
    /\ UNCHANGED <<background, clock, twice, runner, frames, retryCheck, runners, again, initInvoke, rerun>>

\* The continuation of invoke()'s await runs once the task has settled.
InvokeGoesOn ==
    /\ \E n \in Nodes : InvokeSettle(n)
    /\ UNCHANGED <<background, clock, twice, runner, frames, retryCheck, runners, again, initInvoke, rerun>>

\* The runs in which timers fire, settled promises are continued and every
\* step function without timeout settles.
FairSpecSettling ==
    /\ SpecSettling
    /\ \A n \in 1..MaxSteps : WF_vars(TaskGoesOn(n))
    /\ WF_vars(InvokeGoesOn)

\* A single chain in which at most one step has options, among them a
\* retryWhen matcher.
NextMatcher ==
    /\ \/ \E options \in MatcherOptions \cup {NoOptions} : Len(steps) = 0 /\ ChainInit(options)
       \/ \E options \in MatcherOptions \cup {NoOptions} :
             OneWithOptions(options) /\ Chain(Len(steps), options)
       \/ \E n \in Nodes : \E thrown \in MatcherThrown(n) : FnThrow(n, thrown)
       \/ Run
       \/ \E n \in Nodes : Invoke(n)
       \/ \E n \in Nodes : InvokeSettle(n)
    /\ UNCHANGED <<background, clock, twice, runner, frames, retryCheck, runners, again, initInvoke, rerun>>

SpecMatcher == Init /\ [][NextMatcher]_vars

\* Chains that branch: chain() is called on the root and on any builder, any
\* number of times.
NextBranch ==
    /\ \/ \E options \in BranchOptions :
             Len(steps) < MaxBuilders /\ ChainInit(options)
       \/ \E p \in Nodes : \E options \in BranchOptions :
             Len(steps) < MaxBuilders /\ Chain(p, options)
       \/ \E n \in Nodes : \E thrown \in CoreThrown(n) : FnThrow(n, thrown)
       \/ \E n \in Nodes : Resume(n)
       \/ \E n \in Nodes : FnReturn(n)
    /\ UNCHANGED <<background, clock, twice, runner, frames, retryCheck, runners, again, initInvoke, rerun>>

SpecBranch == Init /\ [][NextBranch]_vars

\* A chain definition is built and run, and then built and run again: the
\* same seed, options and step functions, and invoke() on the same builder.
\* At most one step has options.
NextTwice ==
    /\ \/ /\ \/ \E options \in CoreOptions \cup {NoOptions}, fn \in Fns :
                   Len(steps) = 0 /\ ChainInit(options) /\ Defines(options, fn)
             \/ \E options \in CoreOptions \cup {NoOptions}, fn \in Fns :
                   /\ OneWithOptions(options)
                   /\ Chain(Len(steps), options) /\ Defines(options, fn)
          \/ /\ \/ \E n \in Nodes : Resume(n)
                \/ \E n \in Nodes : FnOf(n) = "returns" /\ FnReturn(n)
                \/ \E n \in Nodes : \E thrown \in CoreThrown(n) :
                      FnOf(n) = "throws" /\ FnThrow(n, thrown)
                \/ \E n \in Nodes : FnOf(n) = "hangs" /\ TimerFire(n)
                \/ \E n \in Nodes : (twice.run = 2 => n = twice.on) /\ Invoke(n)
                \/ \E n \in Nodes : InvokeSettle(n)
             /\ UNCHANGED twice
          \/ Restart
    /\ UNCHANGED <<background, clock, runner, frames, retryCheck, runners, again, initInvoke, rerun>>

SpecTwice == Init /\ [][NextTwice]_vars

\* A single chain with the time: at most one step has options, the step
\* functions do not throw, and the timers fire when they are due.
NextClock ==
    /\ \/ \E options \in ClockOptions \cup {NoOptions} :
             Len(steps) = 0 /\ ChainInit(options) /\ UNCHANGED clock
       \/ \E options \in ClockOptions \cup {NoOptions} :
             OneWithOptions(options) /\ Chain(Len(steps), options) /\ UNCHANGED clock
       \/ \E n \in Nodes : Resume(n) /\ Timed(n)
       \/ \E n \in Nodes : FnReturn(n) /\ Timed(n)
       \/ \E n \in Nodes : TimerDue(n) /\ TimerFire(n) /\ Timed(n)
       \/ \E n \in Nodes : DelayDue(n) /\ DelayDone(n) /\ Timed(n)
       \/ Tick
    /\ UNCHANGED <<background, twice, runner, frames, retryCheck, runners, again, initInvoke, rerun>>

SpecClock == Init /\ [][NextClock]_vars

\* ------------------------------------------------------ the Tasks runner
\* Length of the task list.
MaxTasks == 2
\* The next() calls made in one run.
MaxNext == 2

\* The state of one executeTask(index, param) call whose step function was
\* called.  st: running (the step function runs), awaiting (it awaits the
\* next() call that made frame child), returned, threw (the promise of
\* executeTask is resolved, rejected with error).  caller: the frame whose
\* next() made the call (0: invoke()); passed: the values the step function
\* has given to next(), in order; call: which next() call of the caller;
\* awaited: the caller awaits the promise of this executeTask call; caught:
\* the step function has caught the rejection of a next() call it awaited.
Frame(index, param, caller, call) ==
    [index |-> index, param |-> param, isNextCalled |-> FALSE, st |-> "running",
     child |-> 0, caller |-> caller, call |-> call, passed |-> <<>>, error |-> NoError,
     awaited |-> TRUE, caught |-> FALSE]

\* executeTask(index, param) up to `await this.tasks[index](context)`: the
\* frames after the call.  Nothing is called at the end of the list or when
\* the stop flag is set.
executeTask(index, param, caller, call) ==
    IF index >= runner.len \/ runner.shouldStop
    THEN frames
    ELSE Append(frames, Frame(index, param, caller, call))

addTaskDropsFn ==
    /\ runner.st = "none"
    /\ runner.len < MaxTasks
    /\ runner' = [runner EXCEPT !.cls = "TasksWithTasks"]
    /\ UNCHANGED frames

\* addTask(fn), before the run: a new TasksWithTasks whose list is this list
\* and fn.
addTask ==
    /\ runner.st = "none"
    /\ runner.len < MaxTasks
    /\ runner' = [runner EXCEPT !.cls = "TasksWithTasks", !.len = @ + 1]
    /\ UNCHANGED frames

\* TasksWithTasks.invoke(), up to its await: the flag is cleared, then
\* executeTask(0, undefined) calls the first step function, if there is one.
TasksInvoke ==
    /\ runner.st = "none"
    /\ runner.cls = "TasksWithTasks"
    /\ frames' = IF 0 >= runner.len THEN frames
                 ELSE Append(frames, Frame(0, Undefined, 0, 0))
    /\ runner' = [runner EXCEPT !.shouldStop = FALSE, !.st = "pending"]

\* The values a step function gives to next(): none, or a value of its own.
NextValues(f) == {Undefined, Val(NewId("next", f, Len(frames[f].passed) + 1))}

ContextNextKeepsParam(f, value, awaited) ==
    /\ f \in 1..Len(frames)
    /\ frames[f].st = "running"
    /\ runner.nexts < MaxNext
    /\ LET made == executeTask(frames[f].index + 1, frames[f].param, f,
                               Len(frames[f].passed) + 1)
           started == Len(made) > Len(frames)
       IN  frames' = [k \in 1..Len(made) |->
                        IF k = f
                        THEN [made[f] EXCEPT
                                  !.isNextCalled = TRUE,
                                  !.passed = Append(@, value),
                                  !.st = IF awaited /\ started THEN "awaiting" ELSE @,
                                  !.child = IF awaited /\ started THEN Len(made) ELSE @]
                        ELSE IF k > Len(frames)
                        THEN [made[k] EXCEPT !.awaited = awaited]
                        ELSE made[k]]
    /\ runner' = [runner EXCEPT !.nexts = @ + 1]

\* context.next(value), called by the step function of frame f, which awaits
\* the promise or does not.
ContextNext(f, value, awaited) ==
    /\ f \in 1..Len(frames)
    /\ frames[f].st = "running"
    /\ runner.nexts < MaxNext
    /\ LET made == executeTask(frames[f].index + 1, value, f, Len(frames[f].passed) + 1)
           started == Len(made) > Len(frames)
       IN  frames' = [k \in 1..Len(made) |->
                        IF k = f
                        THEN [made[f] EXCEPT
                                  !.isNextCalled = TRUE,
                                  !.passed = Append(@, value),
                                  !.st = IF awaited /\ started THEN "awaiting" ELSE @,
                                  !.child = IF awaited /\ started THEN Len(made) ELSE @]
                        ELSE IF k > Len(frames)
                        THEN [made[k] EXCEPT !.awaited = awaited]
                        ELSE made[k]]
    /\ runner' = [runner EXCEPT !.nexts = @ + 1]

ContextFinishStopsNothing(f) ==
    /\ f \in 1..Len(frames)
    /\ frames[f].st = "running"
    /\ runner' = [runner EXCEPT !.finish = IF @ = 0 THEN Len(frames) ELSE @]
    /\ UNCHANGED frames

\* context.finish()
ContextFinish(f) ==
    /\ f \in 1..Len(frames)
    /\ frames[f].st = "running"
    /\ runner' = [runner EXCEPT !.shouldStop = TRUE,
                                !.finish = IF @ = 0 THEN Len(frames) ELSE @]
    /\ UNCHANGED frames

StepReturnsWithoutStop(f) ==
    /\ f \in 1..Len(frames)
    /\ frames[f].st = "running"
    /\ frames' = [frames EXCEPT ![f].st = "returned"]
    /\ UNCHANGED runner

\* The promise of the step function is resolved: executeTask goes on after
\* its await.
StepReturns(f) ==
    /\ f \in 1..Len(frames)
    /\ frames[f].st = "running"
    /\ frames' = [frames EXCEPT ![f].st = "returned"]
    /\ runner' = [runner EXCEPT !.shouldStop = IF frames[f].isNextCalled THEN @ ELSE TRUE]

\* The step function throws or its promise is rejected: the catch block.
StepThrows(f) ==
    /\ f \in 1..Len(frames)
    /\ frames[f].st = "running"
    /\ frames' = [frames EXCEPT ![f].st = "threw",
                                ![f].error = MkError("Error", <<"Test error">>,
                                                     NewId("task", f, 0))]
    /\ runner' = [runner EXCEPT !.shouldStop = TRUE]

NextSettlesBeforeStepIsOver(f, caught) ==
    /\ f \in 1..Len(frames)
    /\ frames[f].st = "awaiting"
    /\ frames' = [frames EXCEPT ![f].st = "running", ![f].child = 0]
    /\ UNCHANGED runner

\* The next() call a step function awaits has settled.  When it is rejected
\* the step function catches the error and goes on, or fails with it.
NextSettles(f, caught) ==
    /\ f \in 1..Len(frames)
    /\ frames[f].st = "awaiting"
    /\ frames[frames[f].child].st \in {"returned", "threw"}
    /\ IF frames[frames[f].child].st = "returned" \/ caught
       THEN /\ frames' = [frames EXCEPT
                            ![f].st = "running", ![f].child = 0,
                            ![f].caught = @ \/ frames[frames[f].child].st = "threw"]
            /\ UNCHANGED runner
       ELSE /\ frames' = [frames EXCEPT ![f].st = "threw", ![f].child = 0,
                                        ![f].error = frames[frames[f].child].error]
            /\ runner' = [runner EXCEPT !.shouldStop = TRUE]

\* `await this.executeTask(0, undefined)` of invoke() has settled.
TasksInvokeSettle ==
    /\ runner.st = "pending"
    /\ Len(frames) > 0 => frames[1].st \in {"returned", "threw"}
    /\ runner' = IF Len(frames) = 0 \/ frames[1].st = "returned"
                 THEN [runner EXCEPT !.st = "resolved"]
                 ELSE [runner EXCEPT !.st = "rejected", !.reason = frames[1].error]
    /\ UNCHANGED frames

\* One run of a Tasks runner.
NextTasks ==
    /\ \/ addTask
       \/ TasksInvoke
       \/ \E f \in 1..Len(frames), awaited \in BOOLEAN : \E value \in NextValues(f) :
             ContextNext(f, value, awaited)
       \/ \E f \in 1..Len(frames) : ContextFinish(f)
       \/ \E f \in 1..Len(frames) : StepReturns(f)
       \/ \E f \in 1..Len(frames) : StepThrows(f)
       \/ \E f \in 1..Len(frames), caught \in BOOLEAN : NextSettles(f, caught)
       \/ TasksInvokeSettle
    /\ UNCHANGED <<executionHistory, resultIndex, steps, task, obs, inv, background, clock,
                   twice, retryCheck, runners, again, initInvoke, rerun>>

SpecTasks == Init /\ [][NextTasks]_vars

\* ---------------------------------------------- invoke() on a runner again
RECURSIVE RunOf(_)
\* The run (1: the first invoke(), 2: the second) that frame k belongs to.
RunOf(k) ==
    IF frames[k].caller = 0
    THEN IF rerun.root # 0 /\ k = rerun.root THEN 2 ELSE 1
    ELSE RunOf(frames[k].caller)

\* invoke() is called again after the promise of the first call has settled:
\* the flag is cleared and executeTask(0, undefined) calls the first step
\* function.
TasksInvokeAgain ==
    /\ runner.st \in {"resolved", "rejected"}
    /\ runner.cls = "TasksWithTasks"
    /\ rerun.st = "none"
    /\ frames' = IF 0 >= runner.len THEN frames
                 ELSE Append(frames, Frame(0, Undefined, 0, 0))
    /\ runner' = [runner EXCEPT !.shouldStop = FALSE]
    /\ rerun' = [rerun EXCEPT
                    !.root = Len(frames) + 1, !.st = "pending",
                    !.clean = \A k \in 1..Len(frames) : frames[k].st \in {"returned", "threw"}]

\* `await this.executeTask(0, undefined)` of the second invoke() has settled.
TasksInvokeAgainSettle ==
    /\ rerun.st = "pending"
    /\ frames[rerun.root].st \in {"returned", "threw"}
    /\ rerun' = IF frames[rerun.root].st = "returned"
                THEN [rerun EXCEPT !.st = "resolved"]
                ELSE [rerun EXCEPT !.st = "rejected", !.reason = frames[rerun.root].error]
    /\ UNCHANGED <<frames, runner>>

\* What the action of frame f's step function leaves in rerun: whether it
\* set the stop flag that the second invoke() had cleared.
SetsFlag(f) ==
    rerun' = IF rerun.st # "none" /\ ~runner.shouldStop /\ runner'.shouldStop
             THEN [rerun EXCEPT !.setBy = RunOf(f)]
             ELSE rerun

\* Two invoke() calls on one runner, the second after the first has settled.
\* The step functions give no value to next().
NextRerun ==
    /\ \/ /\ \/ addTask
             \/ TasksInvoke
             \/ \E f \in 1..Len(frames), awaited \in BOOLEAN : ContextNext(f, Undefined, awaited)
             \/ TasksInvokeSettle
          /\ UNCHANGED rerun
       \/ \E f \in 1..Len(frames) : ContextFinish(f) /\ SetsFlag(f)
       \/ \E f \in 1..Len(frames) : StepReturns(f) /\ SetsFlag(f)
       \/ \E f \in 1..Len(frames) : StepThrows(f) /\ SetsFlag(f)
       \/ \E f \in 1..Len(frames), caught \in BOOLEAN : NextSettles(f, caught) /\ SetsFlag(f)
       \/ TasksInvokeAgain
       \/ TasksInvokeAgainSettle
    /\ UNCHANGED <<executionHistory, resultIndex, steps, task, obs, inv, background, clock,
                   twice, retryCheck, runners, again, initInvoke>>

SpecRerun == Init /\ [][NextRerun]_vars

\* The step function of frame f returns or throws, as a step of a run.
StepEnds(f) ==
    /\ StepReturns(f) \/ StepThrows(f)
    /\ UNCHANGED <<executionHistory, resultIndex, steps, task, obs, inv, background, clock,
                   twice, retryCheck, runners, again, initInvoke, rerun>>

\* The continuation of an await whose promise has settled runs, as a step of
\* a run.
AwaitContinues ==
    /\ \/ \E f \in 1..Len(frames), caught \in BOOLEAN : NextSettles(f, caught)
       \/ TasksInvokeSettle
    /\ UNCHANGED <<executionHistory, resultIndex, steps, task, obs, inv, background, clock,
                   twice, retryCheck, runners, again, initInvoke, rerun>>

\* A run whose step functions each return or throw in finite time once they
\* are no longer waiting for a next() call, and in which the event loop runs
\* the continuations of settled promises.
FairSpecTasks ==
    /\ SpecTasks
    /\ \A f \in 1..(MaxNext + 1) : WF_vars(StepEnds(f))
    /\ WF_vars(AwaitContinues)

\* ------------------------------------------------- shouldRetry on its own
\* The shouldRetry calls made with one retryWhen object.
MaxChecks == 2

\* The retryWhen objects a caller makes: none, an Error constructor, an Error
\* instance, a string, a regular expression with and without the flags i, g.
CheckMatchers ==
    {NoMatcher}
    \cup {CtorMatcher(c) : c \in ErrorClasses}
    \cup {InstanceMatcher(c, m) : c \in {"Error", "NetworkError"},
                                  m \in {<<>>, <<"Permanent error">>}}
    \cup {StringMatcher(<<"Timeout">>), StringMatcher(<<"timeout">>)}
    \cup {RegExpMatcher(<<"timeout">>, ci, g) : ci, g \in BOOLEAN}

\* The normalized errors shouldRetry is called with.
CheckErrors ==
    {MkError(c, m, NewId("fn", 1, 1)) : c \in {"Error", "NetworkError"}, m \in Messages}
    \cup {TimeoutError(5, 1, NewId("timer", 1, 1))}

\* The caller makes the retryWhen option of a step.
RetryWhenOption(retryWhen) ==
    /\ ~retryCheck.given
    /\ retryCheck' = [NoCheck EXCEPT !.given = TRUE, !.retryWhen = retryWhen]

\* shouldRetry(error, retryWhen) with the retryWhen object of the step: the
\* catch block of an attempt that has retries left.  test() is the only call
\* that can change the object.
ShouldRetryCall(error) ==
    /\ retryCheck.given
    /\ retryCheck.calls < MaxChecks
    /\ retryCheck' =
          [given |-> TRUE,
           retryWhen |-> IF retryCheck.retryWhen.kind = "regexp"
                         THEN RegExpAfterTest(retryCheck.retryWhen, error.msg)
                         ELSE retryCheck.retryWhen,
           error |-> error,
           result |-> shouldRetry(error, retryCheck.retryWhen),
           calls |-> retryCheck.calls + 1]

NextShouldRetry ==
    /\ \/ \E retryWhen \in CheckMatchers : RetryWhenOption(retryWhen)
       \/ \E error \in CheckErrors : ShouldRetryCall(error)
    /\ UNCHANGED <<executionHistory, resultIndex, steps, task, obs, inv, background, clock,
                   twice, runner, frames, runners, again, initInvoke, rerun>>

SpecShouldRetry == Init /\ [][NextShouldRetry]_vars

\* ------------------------------------------------- the runners of addTask
\* Tasks objects made from one `new Tasks()`.
MaxRunners == 5

\* The step function given to the addTask call that makes runner k.
TaskFn(k) == NewId("task", k, 0)

AddTaskSharesList(b) ==
    /\ b \in 1..Len(runners)
    /\ Len(runners) < MaxRunners
    /\ Len(runners[b].tasks) < MaxTasks
    /\ LET fn == TaskFn(Len(runners) + 1)
       IN  runners' = Append([runners EXCEPT ![b].tasks = Append(@, fn)],
                             [cls |-> "TasksWithTasks",
                              tasks |-> Append(runners[b].tasks, fn),
                              shouldStop |-> runners[b].shouldStop,
                              parent |-> b])

\* addTask(fn) on runner b: a new TasksWithTasks with a new array, the
\* receiver's functions and fn, and the receiver's stop flag.
AddTask(b) ==
    /\ b \in 1..Len(runners)
    /\ Len(runners) < MaxRunners
    /\ Len(runners[b].tasks) < MaxTasks
    /\ runners' = Append(runners,
                         [cls |-> "TasksWithTasks",
                          tasks |-> Append(runners[b].tasks, TaskFn(Len(runners) + 1)),
                          shouldStop |-> runners[b].shouldStop,
                          parent |-> b])

\* A run of runner b (it has invoke()) has set its stop flag.
RunSetsStop(b) ==
    /\ b \in 1..Len(runners)
    /\ runners[b].cls = "TasksWithTasks"
    /\ ~runners[b].shouldStop
    /\ runners' = [runners EXCEPT ![b].shouldStop = TRUE]

NextAddTask ==
    /\ \/ \E b \in 1..Len(runners) : AddTask(b)
       \/ \E b \in 1..Len(runners) : RunSetsStop(b)
    /\ UNCHANGED <<executionHistory, resultIndex, steps, task, obs, inv, background, clock,
                   twice, runner, frames, retryCheck, again, initInvoke, rerun>>

SpecAddTask == Init /\ [][NextAddTask]_vars

TypeOK ==
    /\ resultIndex \in 0..1
    /\ Len(task) = Len(steps) /\ Len(obs) = Len(steps)
    /\ inv.on \in 0..Len(steps)
    /\ \A n \in Nodes : task[n].pc \in {"awaiting", "racing", "delaying", "fulfilled", "rejected"}

\* ------------------------------------------------------------ properties
\* The latest attempt of step n returned: the step succeeded.
Succeeded(n) == task[n].pc = "fulfilled" /\ obs[n].thrown = NothingThrown

\* Step n ended with the failure of an attempt of its own.
FailedTerminally(n) == Settled(n) /\ obs[n].calls > 0 /\ obs[n].thrown # NothingThrown

\* No attempt of step n has failed.
NeverFailed(n) == obs[n].calls = 1 /\ obs[n].thrown = NothingThrown

\* The value step n resolves to when its latest call returns.
Produced(n) ==
    IF steps[n].opts.withoutThrow THEN DataObj(Result(n)) ELSE Val(Result(n))

InvokeSettled == inv.st \in {"fulfilled", "rejected"}

\* C1: when no step of the chain has failed, invoke() on the builder of the
\* last step resolves, and resolves to the value the last step produced.
C1_InvokeResolvesToLastStep ==
    (InvokeSettled /\ \A m \in 1..inv.on : NeverFailed(m))
        => inv.st = "fulfilled" /\ inv.value = Produced(inv.on)

\* A chain with a seed and at least two steps, none failed, has been invoked
\* and invoke() has resolved.
C1_Witness ==
    /\ inv.st = "fulfilled" /\ inv.on >= 2 /\ resultIndex = 1
    /\ \A m \in 1..inv.on : NeverFailed(m)

\* The resolved value of history position j in a single chain: the seed, or
\* the value of the step at that position.
ResolvedAt(j) ==
    IF j = 1 /\ resultIndex = 1 THEN Val(Seed) ELSE task[j - resultIndex].value

\* The results view of step n returns the resolved values of the positions
\* before it and undefined for every other position.
ViewExact(n) ==
    \A j \in 1..MaxPos :
        ProxyGet(n, j) = IF j < Position(n) THEN ResolvedAt(j) ELSE Undefined

\* C2 as stated: every call of step n's function that holds the view, the
\* running one and the ones abandoned by a timeout, reads exactly the
\* positions before n.
C2_ViewOfEveryCall ==
    \A n \in Nodes : (task[n].pc = "racing" \/ n \in background.abandoned) => ViewExact(n)

\* The view of the call the step is waiting for.
C2_ViewOfAwaitedCall ==
    \A n \in Nodes : task[n].pc = "racing" => ViewExact(n)

\* C3: the function of a step is not called before the step before it has
\* resolved, and at most one step of the chain is in an attempt or in a
\* retry delay.
C3_StepsRunOneAfterTheOther ==
    /\ \A n \in Nodes :
          (steps[n].parent # 0 /\ obs[n].calls > 0) => task[steps[n].parent].pc = "fulfilled"
    /\ Cardinality({n \in Nodes : task[n].pc \in {"racing", "delaying"}}) <= 1

\* A step is in an attempt after the step before it went through a retry
\* delay.
C3_Witness ==
    \E n \in Nodes :
        /\ steps[n].parent # 0 /\ task[n].pc = "racing"
        /\ obs[steps[n].parent].delays >= 1 /\ obs[steps[n].parent].calls >= 2

\* C4: a throw-mode step that ends with a failed attempt rejects with the
\* Error object that attempt threw; no later step's function is called and an
\* invoke() on its builder or a later one rejects with that object.
C4_ThrowModeRejectsWithSameError ==
    \A n \in Nodes :
        (~steps[n].opts.withoutThrow /\ FailedTerminally(n) /\ obs[n].thrown.isError) =>
            /\ task[n].pc = "rejected" /\ task[n].reason = obs[n].thrown.err
            /\ \A m \in Nodes : m > n => obs[m].calls = 0
            /\ (InvokeSettled /\ inv.on >= n) =>
                   (inv.st = "rejected" /\ inv.reason = obs[n].thrown.err)

\* A throw-mode step has failed, a later step was skipped and invoke() on the
\* later builder has rejected.
C4_Witness ==
    \E n \in Nodes :
        /\ ~steps[n].opts.withoutThrow /\ FailedTerminally(n)
        /\ inv.st = "rejected" /\ inv.on > n /\ task[inv.on].pc = "rejected"

\* The normalized error of the latest failed attempt of step n.
LatestError(n) ==
    normalizeError(obs[n].thrown, NewId("normalizeError", n, obs[n].calls))

C6_CapturedFailureDoesNotStopChain ==
    \A m \in Nodes :
        LET p == steps[m].parent
        IN  (p # 0 /\ steps[p].opts.withoutThrow /\ FailedTerminally(p)
                 /\ task[m].pc # "awaiting") =>
                /\ obs[m].calls >= 1
                /\ ProxyGet(m, Position(p)) = ErrorObj(LatestError(p))
                /\ (inv.on = m /\ InvokeSettled /\ obs[m].thrown = NothingThrown) =>
                       (inv.st = "fulfilled" /\ inv.value = Produced(m))

\* invoke() has resolved on the builder of a step that follows a captured
\* failure.
C6_Witness ==
    \E m \in Nodes :
        /\ steps[m].parent # 0 /\ steps[steps[m].parent].opts.withoutThrow
        /\ FailedTerminally(steps[m].parent)
        /\ inv.on = m /\ inv.st = "fulfilled" /\ Succeeded(m)

\* C7: without retryWhen, the function of a step with retry r is called at
\* most r + 1 times, and exactly r + 1 times when the step has ended with a
\* failed attempt.
C7_AtMostRetryPlusOneCalls ==
    \A n \in Nodes :
        steps[n].opts.retryWhen.kind = "absent" =>
            /\ obs[n].calls <= steps[n].opts.maxRetries + 1
            /\ FailedTerminally(n) => obs[n].calls = steps[n].opts.maxRetries + 1

\* A step with retries has failed on every call.
C7_Witness ==
    \E n \in Nodes :
        /\ steps[n].opts.maxRetries >= 1 /\ FailedTerminally(n)
        /\ obs[n].calls = steps[n].opts.maxRetries + 1

\* C8: when a call of the step function returns the step is over: it
\* resolves to the value of that call, which is the last call made, and
\* carries no error of an earlier attempt.
C8_RetryStopsAtFirstSuccess ==
    \A n \in Nodes :
        (Settled(n) /\ obs[n].calls > 0 /\ obs[n].thrown = NothingThrown) =>
            /\ task[n].pc = "fulfilled"
            /\ task[n].value = Produced(n)
            /\ obs[n].calls <= steps[n].opts.maxRetries + 1

\* A capture-mode step has succeeded on a retry.
C8_Witness ==
    \E n \in Nodes :
        Succeeded(n) /\ obs[n].calls >= 2 /\ steps[n].opts.withoutThrow

\* The matcher table of retryWhen.
Matches(error, retryWhen) ==
    CASE retryWhen.kind = "absent" -> TRUE
      [] retryWhen.kind = "ctor" -> InstanceOf(error.cls, retryWhen.cls)
      [] retryWhen.kind = "instance" -> InstanceOf(error.cls, retryWhen.cls)
      [] retryWhen.kind = "string" ->
            IF retryWhen.str = <<"timeout">>
            THEN error.cls = "TimeoutError"
            ELSE Includes(error.msg, retryWhen.str)
      [] retryWhen.kind = "regexp" -> RegExpTest(retryWhen, error.msg)

\* C9: when the normalized error of a failed attempt does not match the
\* retryWhen of the step, the step ends with that error and the step function
\* is not called again; a first attempt failing so leaves it called once.
C9_NonMatchingErrorIsNotRetried ==
    \A n \in Nodes :
        (steps[n].opts.retryWhen.kind # "absent" /\ obs[n].thrown # NothingThrown
             /\ ~Matches(LatestError(n), steps[n].opts.retryWhen)) =>
            /\ Settled(n)
            /\ IF steps[n].opts.withoutThrow
               THEN task[n].value = ErrorObj(LatestError(n))
               ELSE task[n].pc = "rejected" /\ task[n].reason = LatestError(n)
            /\ obs[n].thrown.isError => obs[n].calls = obs[n].thrown.err.id.seq

\* A step with retries left has failed its first attempt with an error its
\* string matcher does not match.
C9_Witness ==
    \E n \in Nodes :
        /\ steps[n].opts.maxRetries >= 1
        /\ steps[n].opts.retryWhen = StringMatcher(<<"Timeout">>)
        /\ obs[n].thrown.isError /\ obs[n].thrown.err.msg = <<"Permanent error">>
        /\ obs[n].calls = 1 /\ task[n].pc = "rejected"

\* C10: under retryWhen 'timeout' a step does not end on a timeout error
\* while retries remain: when it has ended on one, the step function has been
\* called 1 + retry times.
C10_TimeoutStringRetriesTimeoutError ==
    \A n \in Nodes :
        (steps[n].opts.retryWhen = StringMatcher(<<"timeout">>) /\ Settled(n)
             /\ obs[n].thrown.isError /\ obs[n].thrown.err.cls = "TimeoutError") =>
            obs[n].calls = steps[n].opts.maxRetries + 1

\* Under retryWhen 'timeout' an attempt runs after an attempt that timed out.
C10_Witness ==
    \E n \in Nodes :
        /\ steps[n].opts.retryWhen = StringMatcher(<<"timeout">>)
        /\ task[n].pc = "racing" /\ task[n].attempt >= 1
        /\ task[n].lastError.cls = "TimeoutError"

\* C11 as stated: under a string retryWhen s, 'timeout' included, a step does
\* not end on an error whose message contains s while retries remain: when it
\* has ended on one, the step function has been called 1 + retry times.
C11_StringRetriesOnSubstring ==
    \A n \in Nodes :
        (steps[n].opts.retryWhen.kind = "string" /\ Settled(n)
             /\ obs[n].thrown # NothingThrown
             /\ Includes(LatestError(n).msg, steps[n].opts.retryWhen.str)) =>
            obs[n].calls = steps[n].opts.maxRetries + 1

\* The same for every string but 'timeout'.
C11_OtherStringsRetryOnSubstring ==
    \A n \in Nodes :
        (steps[n].opts.retryWhen.kind = "string"
             /\ steps[n].opts.retryWhen.str # <<"timeout">> /\ Settled(n)
             /\ obs[n].thrown # NothingThrown
             /\ Includes(LatestError(n).msg, steps[n].opts.retryWhen.str)) =>
            obs[n].calls = steps[n].opts.maxRetries + 1

\* C12: which of the two events came first decides the attempt.  After the
\* step function returned first the step is fulfilled with the value of that
\* call, whether or not the timer has fired since; after it failed first the
\* attempt fails with its error; after the timer fired first the attempt
\* fails with a TimeoutError of the configured timeout, and a step that has
\* ended on it is rejected with it in throw-mode and resolves to {error} in
\* capture-mode.
C12_FirstEventDecidesAttempt ==
    \A n \in Nodes :
        (steps[n].opts.hasTimeout /\ obs[n].calls > 0) =>
            /\ (obs[n].thrown.isError /\ obs[n].thrown.err.cls = "TimeoutError") =>
                   obs[n].thrown.err.timeout = steps[n].opts.timeout
            /\ (~Settled(n) /\ obs[n].thrown # NothingThrown) =>
                   task[n].lastError = LatestError(n)
            /\ (Settled(n) /\ obs[n].thrown = NothingThrown) =>
                   task[n].pc = "fulfilled" /\ task[n].value = Produced(n)
            /\ (Settled(n) /\ obs[n].thrown # NothingThrown) =>
                   IF steps[n].opts.withoutThrow
                   THEN task[n].pc = "fulfilled" /\ task[n].value = ErrorObj(LatestError(n))
                   ELSE task[n].pc = "rejected" /\ task[n].reason = LatestError(n)

\* The function of a step with a timeout returned first and the timer has
\* fired since; another step has ended on a timeout.
C12_Witness ==
    /\ \E n \in Nodes :
          /\ steps[n].opts.hasTimeout /\ Succeeded(n) /\ n \notin background.timers
    /\ \E n \in Nodes :
          /\ Settled(n) /\ obs[n].thrown.isError /\ obs[n].thrown.err.cls = "TimeoutError"

\* C13 as stated: the TimeoutError of a timed-out attempt of step n carries
\* the timeout of the step and the 1-based position of step n.
C13_TimeoutErrorCarriesPosition ==
    \A n \in Nodes :
        (obs[n].thrown.isError /\ obs[n].thrown.err.cls = "TimeoutError") =>
            /\ obs[n].thrown.err.timeout = steps[n].opts.timeout
            /\ obs[n].thrown.err.step = Position(n)

\* What holds: the timeout is carried by every step's error; the position by
\* the error of the first step, and the position less one by the others.
C13_TimeoutErrorCarriesBuilderIndex ==
    \A n \in Nodes :
        (obs[n].thrown.isError /\ obs[n].thrown.err.cls = "TimeoutError") =>
            /\ obs[n].thrown.err.timeout = steps[n].opts.timeout
            /\ obs[n].thrown.err.step =
                 IF steps[n].parent = 0 THEN Position(n) ELSE Position(n) - 1

\* C14: every attempt of a step with timeout T has a timer of its own.  No
\* attempt lasts longer than T, however long ago the first attempt of the
\* step began; an attempt ends on a timeout exactly T after that attempt
\* began; and an attempt whose call returns within T of its own beginning
\* makes the step succeed.
C14_EveryAttemptHasItsOwnTimer ==
    \A n \in Nodes :
        (steps[n].opts.hasTimeout /\ obs[n].calls > 0) =>
            LET T == steps[n].opts.timeout
                timedOut == obs[n].thrown.isError /\ obs[n].thrown.err.cls = "TimeoutError"
            IN  /\ task[n].pc = "racing" => clock[n].elapsed <= T
                /\ timedOut => clock[n].ran = T
                /\ (Settled(n) /\ ~timedOut) =>
                       /\ clock[n].ran <= T
                       /\ task[n].pc = "fulfilled" /\ task[n].value = Produced(n)

\* The first attempt of a step timed out, a retry delay passed, and the call
\* of the retry returned some time after it began: the step has succeeded
\* later than T after its first attempt began.
C14_Witness ==
    \E n \in Nodes :
        /\ steps[n].opts.hasTimeout /\ Succeeded(n)
        /\ obs[n].calls = 2 /\ obs[n].delays = 1
        /\ clock[n].ran >= 1
        /\ clock[n].total > steps[n].opts.timeout + steps[n].opts.retryDelay

\* C15 as stated: the function of a step has been called only when invoke()
\* has been called on the builder of that step or of a later one.
C15_NoStepRunsBeforeInvoke ==
    \A n \in Nodes : obs[n].calls > 0 => (inv.st # "none" /\ inv.on >= n)

\* The step of step n's own chain at history position j (0: none, the seed
\* or a position not before n).
RECURSIVE OnChainAt(_, _)
OnChainAt(n, j) ==
    IF n = 0 THEN 0
    ELSE IF Position(n) = j THEN n
    ELSE OnChainAt(steps[n].parent, j)

\* C16 as stated, for the call a step is waiting for: at every position
\* before its own it reads the value of the step of its own chain at that
\* position (the seed at position 1 when there is one).
C16_StepReadsItsOwnChain ==
    \A n \in Nodes :
        task[n].pc = "racing" =>
            \A j \in 1..(Position(n) - 1) :
                ProxyGet(n, j) = IF j <= resultIndex
                                 THEN Val(Seed)
                                 ELSE task[OnChainAt(n, j)].value

\* The second half of C16: a history entry that is written is not changed.
C16_HistoryNeverOverwritten ==
    [][\A j \in 1..MaxPos :
          executionHistory[j] # Absent => executionHistory'[j] = executionHistory[j]]_vars

C18_SeedIsPositionOne ==
    /\ resultIndex = 1 => executionHistory[1] = Val(Seed)
    /\ (resultIndex = 0 /\ \A n \in Nodes : n > 1 => obs[n].calls = 0) =>
           \A j \in 1..MaxPos : executionHistory[j] = Absent
    /\ \A n \in Nodes :
          /\ Position(n) = n + resultIndex
          /\ (task[n].pc = "racing" /\ n = 1) =>
                ProxyGet(n, 1) = IF resultIndex = 1 THEN Val(Seed) ELSE Undefined
          /\ (task[n].pc = "racing" /\ n > 1) =>
                /\ ProxyGet(n, Position(n) - 1) = task[n - 1].value
                /\ ProxyGet(n, Position(n) - 1) # Undefined

\* Without a seed, the second step is in an attempt and reads the first
\* step's value at position 1.
C18_Witness ==
    /\ resultIndex = 0 /\ Len(steps) >= 2 /\ task[2].pc = "racing"
    /\ Position(2) = 2 /\ ProxyGet(2, 1) = task[1].value
    /\ task[1].value = Produced(1)

\* C19 as stated: the step functions of a run are called in strictly
\* increasing index order, the first call being that of index 0; so no step
\* function is called twice in a run.
C19_StepsCalledOnceInIndexOrder ==
    /\ Len(frames) > 0 => frames[1].index = 0
    /\ \A k, l \in 1..Len(frames) : k < l => frames[k].index < frames[l].index

\* What holds: a step function is called by a next() call of the step before
\* it, and the order is as stated in a run where no step function calls
\* next() twice.
C19_OrderWhenNextCalledOnce ==
    /\ \A k \in 1..Len(frames) :
          IF frames[k].caller = 0
          THEN k = 1 /\ frames[k].index = 0
          ELSE frames[k].caller < k /\ frames[k].index = frames[frames[k].caller].index + 1
    /\ (\A f \in 1..Len(frames) : Len(frames[f].passed) <= 1) =>
          \A k, l \in 1..Len(frames) : k < l => frames[k].index < frames[l].index

\* C20: the param of a step function called by the k-th next() call of a
\* step is the value given to that call, undefined when none was given; the
\* param of the first step is undefined.
C20_ParamIsValuePassedToNext ==
    \A k \in 1..Len(frames) :
        IF frames[k].caller = 0
        THEN frames[k].index = 0 /\ frames[k].param = Undefined
        ELSE LET c == frames[frames[k].caller]
             IN  /\ frames[k].index = c.index + 1
                 /\ frames[k].call \in 1..Len(c.passed)
                 /\ frames[k].param = c.passed[frames[k].call]

\* A step function was called with the value the step before it gave to
\* next(), while that step had itself been called with undefined.
C20_Witness ==
    \E k \in 1..Len(frames) :
        /\ frames[k].caller # 0 /\ frames[k].param # Undefined
        /\ frames[k].param = Val(NewId("next", frames[k].caller, frames[k].call))
        /\ frames[frames[k].caller].param = Undefined
        /\ frames[k].st = "returned"

\* The step function of frame k threw by itself (it did not fail with the
\* rejection of a next() call it awaited).
ThrewItself(k) == frames[k].st = "threw" /\ frames[k].error.id = NewId("task", k, 0)

\* Every step function that was called is over.
AllFramesOver == \A k \in 1..Len(frames) : frames[k].st \in {"returned", "threw"}

\* C21: once a step function has called finish(), no step function is called
\* any more in the run, whatever next() calls follow; and unless a step
\* function throws by itself, invoke() is not rejected and the first
\* executeTask call is resolved when the step functions are over.
C21_FinishHaltsTheRun ==
    runner.finish > 0 =>
        /\ Len(frames) = runner.finish
        /\ (\A k \in 1..Len(frames) : ~ThrewItself(k)) =>
              /\ runner.st # "rejected"
              /\ AllFramesOver => frames[1].st = "returned"

\* The first step called finish() and then next() with a step left in the
\* list: nothing was started and invoke() is resolved.
C21_Witness ==
    /\ runner.finish = 1 /\ Len(frames) = 1
    /\ runner.len = 2 /\ Len(frames[1].passed) = 1
    /\ runner.st = "resolved"

\* The step function of frame k has returned without having called next().
ReturnedWithoutNext(k) == frames[k].st = "returned" /\ ~frames[k].isNextCalled

SomeStepThrew == \E k \in 1..Len(frames) : ThrewItself(k)

\* No step function has caught the rejection of a next() call.
NothingCaught == \A k \in 1..Len(frames) : ~frames[k].caught

\* Every next() call that started a step function is awaited by its caller.
EveryNextAwaited == \A k \in 1..Len(frames) : frames[k].awaited

\* C23 as stated: when a step function has thrown e (and no step function
\* catches the rejection of its next() call), invoke() is not resolved, it is
\* rejected with e once the step functions are over, and no step function is
\* called after the throw.
C23_ThrowRejectsInvoke ==
    /\ [][SomeStepThrew => Len(frames') = Len(frames)]_vars
    /\ [](SomeStepThrew /\ NothingCaught =>
            /\ runner.st # "resolved"
            /\ runner.st = "rejected" =>
                  \E k \in 1..Len(frames) : ThrewItself(k) /\ runner.reason = frames[k].error)

\* What holds: no step function is called after a throw, and a rejection of
\* invoke() carries the error of a step function that threw by itself; when
\* every next() call is awaited and no rejection is caught, a single step
\* function throws by itself, invoke() is not resolved and the first
\* executeTask call is rejected with that error once the step functions are
\* over.
C23_ThrowRejectsWhenNextAwaited ==
    /\ [][SomeStepThrew => Len(frames') = Len(frames)]_vars
    /\ [](runner.st = "rejected" =>
            \E k \in 1..Len(frames) : ThrewItself(k) /\ runner.reason = frames[k].error)
    /\ [](SomeStepThrew /\ NothingCaught /\ EveryNextAwaited =>
            /\ runner.st # "resolved"
            /\ \A k, l \in 1..Len(frames) : ThrewItself(k) /\ ThrewItself(l) => k = l
            /\ AllFramesOver =>
                  \E k \in 1..Len(frames) : ThrewItself(k) /\ frames[1].error = frames[k].error)

\* C24 as stated: when the promise of invoke() is resolved, every step
\* function that was called is over (and so none can call next() any more).
C24_ResolvedWhenAllTasksCompleted ==
    runner.st = "resolved" => AllFramesOver

\* What holds: invoke() resolves after the first step function is over, and
\* after every step function when every next() call is awaited.
C24_ResolvedWhenAwaitedTasksCompleted ==
    runner.st = "resolved" =>
        /\ frames[1].st = "returned"
        /\ EveryNextAwaited => AllFramesOver

Completed(n) == task[n].pc = "fulfilled"

\* C26 as stated: the history entry of a step's position is present exactly
\* when the step has completed.
C26_EntryPresentIffStepCompleted ==
    \A n \in Nodes : executionHistory[Position(n)] # Absent <=> Completed(n)

\* What holds: the entry of a step is written by the step chained after it,
\* when that step begins an attempt; it is present exactly when such a step
\* has called its function, and it is then the value the step resolved to.
\* The entry of a step nothing is chained after, the last step of an invoked
\* chain included, is never written.
C26_EntryWrittenByFollowingStep ==
    \A n \in Nodes :
        /\ executionHistory[Position(n)] # Absent <=>
              \E m \in Nodes : steps[m].parent = n /\ obs[m].calls > 0
        /\ executionHistory[Position(n)] # Absent =>
              Completed(n) /\ executionHistory[Position(n)] = task[n].value
        /\ (\A m \in Nodes : steps[m].parent # n) => executionHistory[Position(n)] = Absent

\* C27: a step chained after a step whose task is rejected is rejected with
\* the same error without calling its function or waiting, whatever its
\* options; so invoke() on a step after a step that failed in throw mode is
\* rejected with that step's error.
C27_PropagatedFailureSkipsSteps ==
    /\ \A n \in Nodes :
          (steps[n].parent # 0 /\ task[steps[n].parent].pc = "rejected"
             /\ task[n].pc # "awaiting") =>
                /\ task[n].pc = "rejected"
                /\ task[n].reason = task[steps[n].parent].reason
                /\ obs[n].calls = 0 /\ obs[n].delays = 0
    /\ \A m \in Nodes :
          (InvokeSettled /\ m < inv.on /\ task[m].pc = "rejected" /\ obs[m].calls > 0) =>
              /\ inv.st = "rejected" /\ inv.reason = task[m].reason
              /\ \A n \in (m + 1)..inv.on : obs[n].calls = 0

\* The first step failed in throw mode and the second, defined with
\* withoutThrow: true and retry > 0, was skipped: invoke() on it is rejected
\* with the first step's error.
C27_Witness ==
    /\ Len(steps) >= 2 /\ inv.on = 2 /\ inv.st = "rejected"
    /\ task[1].pc = "rejected" /\ obs[1].calls > 0
    /\ steps[2].opts.withoutThrow /\ steps[2].opts.maxRetries > 0
    /\ obs[2].calls = 0 /\ inv.reason = task[1].reason

\* C28: a step that calls a step function again (a retry) calls no other
\* step function and leaves every history entry that is present as it is;
\* and a step function is called once and once more for each attempt that
\* failed and was retried, at most maxRetries + 1 times.
C28_RetryStaysWithinItsStep ==
    /\ [][\A n \in 1..Len(obs) :
            (obs[n].calls > 0 /\ obs'[n].calls > obs[n].calls) =>
                /\ obs'[n].calls = obs[n].calls + 1
                /\ \A m \in 1..Len(obs) : m # n => obs'[m].calls = obs[m].calls
                /\ \A j \in 1..MaxPos :
                      executionHistory[j] # Absent => executionHistory'[j] = executionHistory[j]]_vars
    /\ [](\A n \in Nodes :
            /\ obs[n].calls <= steps[n].opts.maxRetries + 1
            /\ task[n].pc = "racing" => obs[n].calls = task[n].attempt + 1
            /\ task[n].pc = "delaying" => obs[n].calls = task[n].attempt)

\* A chain of two steps with retry: 1 each, in which each step failed once
\* and then succeeded: both step functions were called exactly twice and
\* invoke() has resolved.
C28_Witness ==
    /\ Len(steps) = 2 /\ inv.on = 2 /\ inv.st = "fulfilled"
    /\ \A n \in 1..2 : steps[n].opts.maxRetries = 1 /\ Succeeded(n) /\ obs[n].calls = 2
    /\ executionHistory[Position(1)] = task[1].value

\* C29: the retryDelay waits of a step are as many as its retries: none
\* before the first call of its function, one between a failed attempt and
\* the call that retries it, none after the last attempt; a step whose
\* retryDelay is 0 never waits.
C29_OneWaitPerRetry ==
    \A n \in Nodes :
        /\ steps[n].opts.retryDelay = 0 => obs[n].delays = 0 /\ task[n].pc # "delaying"
        /\ obs[n].calls = 0 => obs[n].delays = 0
        /\ (steps[n].opts.retryDelay > 0 /\ obs[n].calls > 0) =>
              /\ obs[n].delays = IF task[n].pc = "delaying" THEN obs[n].calls
                                 ELSE obs[n].calls - 1
              /\ task[n].pc = "delaying" => obs[n].calls = task[n].attempt
              /\ task[n].pc = "racing" => obs[n].calls = task[n].attempt + 1

\* A step with a retry delay failed, waited once, was retried and failed for
\* good: two calls, one wait; and a step with retryDelay: 0 was retried
\* without a wait.
C29_Witness ==
    \E n \in Nodes :
        /\ steps[n].opts.retryDelay > 0 /\ FailedTerminally(n)
        /\ obs[n].calls = 2 /\ obs[n].delays = 1
        /\ \E m \in Nodes : /\ steps[m].opts.retryDelay = 0 /\ obs[m].calls = 2
                            /\ obs[m].delays = 0

\* The message s matches the pattern of the regular expression m.
PatternMatches(m, s) == RegExpTest([m EXCEPT !.lastIndex = 0], s)

\* The matcher table for the matchers that are not strings.
MatchesNonString(error, retryWhen) ==
    CASE retryWhen.kind = "absent" -> TRUE
      [] retryWhen.kind = "ctor" -> InstanceOf(error.cls, retryWhen.cls)
      [] retryWhen.kind = "instance" -> InstanceOf(error.cls, retryWhen.cls)
      [] retryWhen.kind = "regexp" -> PatternMatches(retryWhen, error.msg)

\* C30 as stated: for a retryWhen that is not a string, every call of
\* shouldRetry returns what the matcher table says of the error.
C30_ShouldRetryEqualsTable ==
    (retryCheck.calls > 0 /\ retryCheck.retryWhen.kind # "string") =>
        retryCheck.result = MatchesNonString(retryCheck.error, retryCheck.retryWhen)

\* What holds: the same for every retryWhen but a regular expression with the
\* g flag, and for the first call with such an expression.
C30_TableWithoutGlobalRegExp ==
    (/\ retryCheck.calls > 0 /\ retryCheck.retryWhen.kind # "string"
     /\ retryCheck.retryWhen.g => retryCheck.calls = 1) =>
        retryCheck.result = MatchesNonString(retryCheck.error, retryCheck.retryWhen)

\* The error step n ended with: the error key of the object it resolved to
\* in capture mode, its rejection in throw mode.
EndedWith(n) == IF task[n].pc = "fulfilled" THEN task[n].value.error ELSE task[n].reason

\* C31: a step that ended on a failed attempt ended with an Error object: the
\* very object the attempt threw when that was an Error, and else a new Error
\* whose message is the string form of the thrown value; that Error is what
\* retryWhen was matched against (a step does not end on a value whose string
\* form contains its matcher string while retries remain); and the rejection
\* of invoke() is an Error object.
C31_FailuresAreNormalized ==
    /\ \A n \in Nodes :
          FailedTerminally(n) =>
              /\ task[n].pc = "fulfilled" <=> steps[n].opts.withoutThrow
              /\ task[n].pc = "fulfilled" => task[n].value.keys = {"error"}
              /\ EndedWith(n).cls \in ErrorClasses
              /\ IF obs[n].thrown.isError
                 THEN EndedWith(n) = obs[n].thrown.err
                 ELSE /\ EndedWith(n).cls = "Error"
                      /\ EndedWith(n).msg = obs[n].thrown.str
                      /\ EndedWith(n).id = NewId("normalizeError", n, obs[n].calls)
              /\ (/\ ~obs[n].thrown.isError
                  /\ steps[n].opts.retryWhen.kind = "string"
                  /\ steps[n].opts.retryWhen.str # <<"timeout">>
                  /\ Includes(obs[n].thrown.str, steps[n].opts.retryWhen.str)) =>
                     obs[n].calls = steps[n].opts.maxRetries + 1
    /\ inv.st = "rejected" => inv.reason.cls \in ErrorClasses

\* A step threw a string: one in capture mode resolved to {error} with a new
\* Error of that message after the string matcher matched it and it was
\* retried, and invoke() on a throw-mode one is rejected with a new Error.
C31_Witness ==
    /\ \E n \in Nodes :
          /\ FailedTerminally(n) /\ ~obs[n].thrown.isError
          /\ steps[n].opts.withoutThrow /\ obs[n].calls = 2
          /\ steps[n].opts.retryWhen = StringMatcher(<<"Timeout">>)
          /\ task[n].value = ErrorObj(MkError("Error", <<"Timeout", " error">>,
                                              NewId("normalizeError", n, 2)))

\* C32: while a call that a timeout abandoned is still running, the step is
\* not waiting for it: it is in a later attempt or it is over, on the
\* TimeoutError when it was its last attempt; and when the abandoned call
\* settles, no task, no history entry and no invoke() changes.
C32_AbandonedCallIsNotAwaited ==
    /\ [](\A n \in Nodes :
            n \in background.abandoned =>
                /\ obs[n].calls > 0
                /\ Settled(n) \/ (task[n].pc = "racing" /\ task[n].attempt >= 1)
                /\ (Settled(n) /\ obs[n].thrown # NothingThrown
                        /\ obs[n].calls < steps[n].opts.maxRetries + 1) =>
                       obs[n].thrown.err.cls # "TimeoutError")
    /\ [][(\E n \in Nodes : n \in background.abandoned /\ n \notin background'.abandoned) =>
            /\ task' = task /\ executionHistory' = executionHistory
            /\ inv' = inv /\ obs' = obs]_vars

\* invoke() has resolved to the value of the step after a capture-mode step
\* that timed out, whose history entry is the {error} object, and the
\* abandoned call of the timed-out step has settled since.
C32_Witness ==
    /\ Len(steps) = 2 /\ inv.on = 2 /\ inv.st = "fulfilled"
    /\ steps[1].opts.withoutThrow /\ obs[1].thrown.isError
    /\ obs[1].thrown.err.cls = "TimeoutError"
    /\ executionHistory[Position(1)] = ErrorObj(obs[1].thrown.err)
    /\ inv.value = Val(Result(2))
    /\ background.abandoned = {}

\* The step function of frame k is over.
Over(k) == frames[k].st \in {"returned", "threw"}

\* C33: when every next() call is awaited, a step function that is not over
\* is the one its caller is awaiting, so the code of a step after
\* `await next()` runs only when every step function started from it is
\* over; when no step function calls next() twice, a step function is over
\* only when all those started after it are over (they end in the reverse of
\* the order they started in); and invoke() settles only when all are over.
C33_AwaitedStepsNestLikeAStack ==
    EveryNextAwaited =>
        /\ \A k \in 1..Len(frames) :
              (~Over(k) /\ frames[k].caller # 0) =>
                  /\ frames[frames[k].caller].st = "awaiting"
                  /\ frames[frames[k].caller].child = k
        /\ \A f, k \in 1..Len(frames) :
              (frames[f].st = "running" /\ frames[k].caller = f) => Over(k)
        /\ (\A f \in 1..Len(frames) : Len(frames[f].passed) <= 1) =>
              \A k, l \in 1..Len(frames) : (k < l /\ Over(k)) => Over(l)
        /\ runner.st \in {"resolved", "rejected"} => AllFramesOver

\* Two steps, the first awaiting its next() call: the second step returned,
\* then the first went on after its await and returned, then invoke()
\* resolved.
C33_Witness ==
    /\ Len(frames) = 2 /\ EveryNextAwaited
    /\ frames[2].caller = 1 /\ frames[1].isNextCalled
    /\ frames[1].st = "returned" /\ frames[2].st = "returned"
    /\ runner.st = "resolved" /\ runner.finish = 0

\* C34: an addTask call leaves every runner there is as it was, the receiver
\* included, and the list of the runner it makes is the receiver's list and
\* then fn; so the list of a runner is that of the runner it was made from
\* and its own function, and of two runners made from the same receiver
\* neither has the other's function.
C34_AddTaskLeavesReceiverUnchanged ==
    /\ [][Len(runners') = Len(runners) + 1 =>
            /\ \A b \in 1..Len(runners) : runners'[b] = runners[b]
            /\ LET new == runners'[Len(runners')]
               IN  /\ new.parent \in 1..Len(runners)
                   /\ new.tasks = Append(runners[new.parent].tasks, TaskFn(Len(runners')))]_vars
    /\ [](\A b \in 1..Len(runners) :
            /\ runners[b].parent = 0 => runners[b].tasks = <<>>
            /\ runners[b].parent # 0 =>
                  runners[b].tasks = Append(runners[runners[b].parent].tasks, TaskFn(b))
            /\ \A c \in 1..Len(runners) :
                  (c # b /\ runners[c].parent = runners[b].parent) =>
                      \A i \in 1..Len(runners[b].tasks) : runners[b].tasks[i] # TaskFn(c))

\* Two runners were made from the same runner of one step by separate
\* addTask calls: the receiver still has one step, each of the two has the
\* receiver's step and its own.
C34_Witness ==
    \E b, c \in 1..Len(runners) :
        /\ b # c /\ runners[b].parent = runners[c].parent /\ runners[b].parent # 0
        /\ Len(runners[runners[b].parent].tasks) = 1
        /\ Len(runners[b].tasks) = 2 /\ Len(runners[c].tasks) = 2
        /\ runners[b].tasks[2] = TaskFn(b) /\ runners[c].tasks[2] = TaskFn(c)

\* C35 as stated: invoke() has settled after at most one pass over the step
\* list, so no step function has been called twice by then, and a next()
\* call made by the last step has called nothing.
C35_SettlesAfterOnePass ==
    /\ runner.st \in {"resolved", "rejected"} =>
          \A k, l \in 1..Len(frames) : k # l => frames[k].index # frames[l].index
    /\ \A k \in 1..Len(frames) :
          frames[k].caller # 0 => frames[frames[k].caller].index # runner.len - 1

\* What holds: a called invoke() settles in every run whose step functions
\* end ...
C35_InvokeSettles ==
    (runner.st = "pending") ~> (runner.st \in {"resolved", "rejected"})

\* ... and no call goes past the end of the list: a step function is called
\* by a next() call of the step before it, and a next() call of the last step
\* calls nothing, sets nothing and leaves its step function running.
C35_LastStepNextStartsNothing ==
    /\ [](\A k \in 1..Len(frames) :
            /\ frames[k].index \in 0..(runner.len - 1)
            /\ frames[k].caller # 0 =>
                  /\ frames[k].index = frames[frames[k].caller].index + 1
                  /\ frames[frames[k].caller].index # runner.len - 1)
    /\ [][\A f \in 1..Len(frames) :
            (frames[f].index = runner.len - 1
                /\ Len(frames'[f].passed) > Len(frames[f].passed)) =>
                    /\ Len(frames') = Len(frames)
                    /\ frames'[f].st = "running"
                    /\ runner'.shouldStop = runner.shouldStop]_vars

\* C36: when timers fire and every step function without a timeout settles,
\* a called invoke() is eventually resolved or rejected, whether or not the
\* step functions of the steps with a timeout ever settle; and no step
\* function is called more than 1 + retry times.
C36_InvokeEventuallySettles ==
    /\ (inv.st = "pending") ~> (inv.st \in {"fulfilled", "rejected"})
    /\ [](\A n \in Nodes :
            /\ obs[n].calls <= 1 + steps[n].opts.maxRetries
            /\ task[n].attempt <= steps[n].opts.maxRetries)

\* invoke() has settled on a step with a timeout and retry 1 whose step
\* function was called twice and settled neither time: both attempts ended by
\* their timers.
C36_Witness ==
    /\ inv.st \in {"fulfilled", "rejected"}
    /\ steps[inv.on].opts.hasTimeout
    /\ steps[inv.on].opts.maxRetries = 1
    /\ obs[inv.on].calls = 2
    /\ obs[inv.on].thrown.isError
    /\ obs[inv.on].thrown.err.cls = "TimeoutError"
    /\ obs[inv.on].thrown.err.id = NewId("timer", inv.on, 2)

\* C37: a further invoke() call on the same builder calls no step function
\* and changes nothing of the chain, during the run or after it, so every
\* step function is called as often as with one invoke() call; and when both
\* calls have settled they have settled alike, with the same value or the
\* same error object, that of the builder's task.
C37_InvokeAgainRunsNothing ==
    /\ [][again' # again => UNCHANGED <<executionHistory, resultIndex, steps, task, obs>>]_vars
    /\ [](\A n \in Nodes : obs[n].calls <= 1 + steps[n].opts.maxRetries)
    /\ []((inv.st \in {"fulfilled", "rejected"} /\ again.st \in {"fulfilled", "rejected"}) =>
            /\ again.on = inv.on
            /\ again.st = inv.st /\ again.value = inv.value /\ again.reason = inv.reason
            /\ inv.st = task[inv.on].pc
            /\ inv.value = task[inv.on].value /\ inv.reason = task[inv.on].reason)

\* Both invoke() calls on the second builder were rejected with the error of
\* the second step's function, which was called once; both were fulfilled in
\* another run, the second call made after the first had settled.
C37_Witness ==
    /\ inv.on = 2 /\ again.on = 2
    /\ inv.st = "rejected" /\ again.st = "rejected"
    /\ again.reason = inv.reason /\ inv.reason.id = NewId("fn", 2, 1)
    /\ obs[2].calls = 1 /\ obs[1].calls = 1

\* C39: invoke() on the `new Chains(seed)` object is fulfilled with undefined,
\* with a seed as well, and the call changes nothing: no step function is
\* called by it and the history stays as it is.
C39_InitInvokeResolvesUndefined ==
    /\ [](initInvoke.st \in {"none", "pending", "fulfilled"} /\ initInvoke.value = Undefined)
    /\ [][initInvoke' # initInvoke =>
            UNCHANGED <<executionHistory, resultIndex, steps, task, obs, inv>>]_vars
    /\ []((initInvoke.st # "none" /\ Len(steps) = 0) =>
            /\ obs = <<>> /\ task = <<>>
            /\ \A j \in 2..MaxPos : executionHistory[j] = Absent)

\* invoke() on a `new Chains(seed)` object with a seed, to which no step has
\* been added, is fulfilled.
C39_Witness ==
    /\ initInvoke.st = "fulfilled"
    /\ resultIndex = 1 /\ executionHistory[1] = Val(Seed)
    /\ Len(steps) = 0

\* C38 as stated: the second invoke() call on a runner starts a run of its
\* own, whatever ended the first: the first step function is called again
\* with no param, the stop flag is cleared and from then on it is set by the
\* step functions of the second run only, and a rejection of the second
\* invoke() carries an error of the second run.
C38_SecondRunIsFresh ==
    rerun.st # "none" =>
        /\ rerun.root \in 1..Len(frames)
        /\ frames[rerun.root].index = 0 /\ frames[rerun.root].param = Undefined
        /\ runner.shouldStop => rerun.setBy = 2
        /\ rerun.st = "rejected" =>
              \E k \in 1..Len(frames) :
                  /\ RunOf(k) = 2 /\ frames[k].st = "threw"
                  /\ frames[k].error = rerun.reason

\* What holds: the same, when no step function of the first run was still
\* running at the second invoke() call; in any case the second call clears
\* the flag, calls the first step function with no param, and is rejected
\* only with an error of its own run.
C38_FreshWhenFirstRunIsOver ==
    rerun.st # "none" =>
        /\ rerun.root \in 1..Len(frames)
        /\ frames[rerun.root].index = 0 /\ frames[rerun.root].param = Undefined
        /\ (rerun.clean /\ runner.shouldStop) => rerun.setBy = 2
        /\ rerun.st = "rejected" =>
              \E k \in 1..Len(frames) :
                  /\ RunOf(k) = 2 /\ frames[k].st = "threw"
                  /\ frames[k].error = rerun.reason

====
